---- MODULE Spec2Model ----
(***************************************************************************)
(* DataMatch / FileCompress: key normalization, two-dataset reconciliation *)
(* and SQL script generation.                                              *)
(*                                                                         *)
(* Strings that the code inspects character by character (identifiers)    *)
(* are sequences of one-character strings.  Strings that the code only    *)
(* compares or tests for emptiness (attribute codes, file names, toast    *)
(* titles) are TLA+ strings.  Generated SQL text is a sequence of lines,  *)
(* one record per line of the template that builds it.                    *)
(***************************************************************************)
EXTENDS Integers, Sequences, FiniteSets, TLC

VARIABLES
  page,              \* which page of the application the session is on
  toast,             \* the toasts raised by the last event handler, in order
  \* the read sites of an identifier (SpecNorm)
  raw,               \* the raw identifier text handed to every read site
  pc,                \* "input" before the read sites ran, "read" after
  ids,               \* the identifiers each read site produced from raw
  \* the comparison page (ExcelComparisonApp); <<>> is null or ''
  file1,
  file2,
  comparison,
  scripts,
  queryScript,
  isQueryScript,
  isProcessing,
  currentStep,
  completedSteps,
  timers,            \* pending setTimeout callbacks of compareFiles, with
                     \* the state their closures captured
  \* the text-file tool (FileCompress)
  files,
  compressedContent,
  validationScript,
  emailMessage,
  \* spreadsheet uploads of the comparison page
  workbook,          \* the workbook the operator can pick besides the
                     \* reference one; <<>> when there is none
  uploads,           \* handleFileUpload calls waiting for processExcelFile
  availableSheets,
  selectedSheet

normVars == <<raw, pc, ids>>

appVars == <<file1, file2, comparison, scripts, queryScript, isQueryScript,
             isProcessing, currentStep, completedSteps, timers>>

textVars == <<files, compressedContent, validationScript, emailMessage>>

uploadVars == <<workbook, uploads, availableSheets, selectedSheet>>

vars == <<page, toast, normVars, appVars, textVars, uploadVars>>

-----------------------------------------------------------------------------
(* Bounds and program constants *)

\* longest raw identifier text that is enumerated
MaxLen == 7

\* most rows of the two compared datasets together
MaxRows == 2

\* most compareFiles timers pending at once
MaxTimers == 1

\* most files in one uploaded batch
MaxFiles == 2

\* most sheets of an enumerated workbook
MaxSheets == 2

\* most handleFileUpload calls waiting for their file at once
MaxUploads == 1

MaxHeaders == 3

\* canonical identifier width (the literal 6 of the padding code)
PadWidth == 6

-----------------------------------------------------------------------------
(* Characters and strings *)

\* the characters \d matches
DigitSeq == <<"0", "1", "2", "3", "4", "5", "6", "7", "8", "9">>

DigitChars == {DigitSeq[i] : i \in 1..Len(DigitSeq)}

\* the characters raw identifier texts are enumerated over: two digits, a
\* letter and white space
Chars == {"0", "5", "A", " "}

\* Number.prototype.toString(): the decimal digits of n
RECURSIVE ToDigits(_)
ToDigits(n) ==
  IF n < 10 THEN <<DigitSeq[n + 1]>>
  ELSE ToDigits(n \div 10) \o <<DigitSeq[(n % 10) + 1]>>

Str(n) == UNION {[1..k -> Chars] : k \in 0..n}

SetMin(S) == CHOOSE x \in S : \A y \in S : x <= y

SetMax(S) == CHOOSE x \in S : \A y \in S : x >= y

\* String.prototype.trim
trim(s) ==
  LET keep == {i \in 1..Len(s) : s[i] # " "}
  IN  IF keep = {} THEN <<>> ELSE SubSeq(s, SetMin(keep), SetMax(keep))

\* /^\d+$/.test(s)
IsAllDigits(s) == Len(s) > 0 /\ \A i \in 1..Len(s) : s[i] \in DigitChars

\* '0'.repeat(n)
repeat0(n) == [i \in 1..n |-> "0"]

\* String.prototype.padStart(width, '0')
padStart(s, width) == IF Len(s) >= width THEN s ELSE repeat0(width - Len(s)) \o s

\* JavaScript truthiness of a string
Truthy(s) == s # <<>>

-----------------------------------------------------------------------------
(* Key normalization *)

\* Mutant of normalizedMatricula: a short all-digit value gets a single '0'
normalizedMatricula_OneZero(matricula) ==
  LET trimmed == trim(matricula)
  IN  IF IsAllDigits(trimmed) /\ Len(trimmed) < PadWidth
      THEN <<"0">> \o trimmed ELSE trimmed

\* Mutant of normalizedMatricula: forces every all-digit value to the canonical
\* width, cutting longer ones to their last PadWidth digits
normalizedMatricula_Truncating(matricula) ==
  LET trimmed == trim(matricula)
      padded == IF Len(trimmed) < PadWidth
                THEN repeat0(PadWidth - Len(trimmed)) \o trimmed
                ELSE SubSeq(trimmed, Len(trimmed) - PadWidth + 1, Len(trimmed))
  IN  IF IsAllDigits(trimmed) THEN padded ELSE trimmed

\* compareFiles, lines 1190-1200 (file 1) and 1211-1221 (file 2): the block
\* that turns a truthy MATRICULA cell into the map key
normalizedMatricula(matricula) ==
  LET trimmed == trim(matricula)
  IN  IF IsAllDigits(trimmed)
      THEN IF Len(trimmed) < PadWidth
           THEN repeat0(PadWidth - Len(trimmed)) \o trimmed
           ELSE trimmed
      ELSE trimmed

\* normalizeMatricula of the earlier comparison page
normalizeMatricula(matricula) ==
  IF ~Truthy(matricula) THEN <<>>
  ELSE LET strMatricula == trim(matricula)
       IN  IF IsAllDigits(strMatricula) THEN padStart(strMatricula, PadWidth)
           ELSE strMatricula

\* generateQueryScript, lines 1468-1480: the value listed for a truthy cell
originalValue(matricula) ==
  LET trimmed == trim(matricula)
  IN  IF IsAllDigits(trimmed) /\ Len(trimmed) < PadWidth
      THEN repeat0(PadWidth - Len(trimmed)) \o trimmed
      ELSE trimmed

\* generateScripts, lines 1353-1356: /^\d{5}$/ gets one more '0' in front
matriculaCorregida(matricula) ==
  IF Len(matricula) = 5 /\ IsAllDigits(matricula) THEN <<"0">> \o matricula
  ELSE matricula

-----------------------------------------------------------------------------
(* Datasets of the comparison page *)

\* A row as processExcelFile builds it: the three mapped key columns, each a
\* trimmed string; the other spellings the read sites probe ('matricula',
\* 'CODIGO_POLIGONO', ...) are absent.
Row(m, p, c) == [MATRICULA |-> m, CODIGO_POLIGONO |-> p, CODIGO_CELDA |-> c]

\* row['MATRICULA'] || row['matricula'] || row['Matricula']
matriculaOf(row) == row.MATRICULA

\* row['CODIGO POLIGONO'] || row['CODIGO_POLIGONO'] || row['codigo_poligono'] || ''
codigoPoligonoOf(row) == row.CODIGO_POLIGONO

\* row['CODIGO CELDA'] || row['CODIGO_CELDA'] || row['codigo_celda'] || ''
codigoCeldaOf(row) == row.CODIGO_CELDA

\* A JavaScript Map: entries in insertion order; set() on a present key
\* replaces the value and keeps the entry's place.
MapHas(m, k) == \E i \in 1..Len(m) : m[i].key = k

MapIndex(m, k) == CHOOSE i \in 1..Len(m) : m[i].key = k

MapGet(m, k) == m[MapIndex(m, k)].row

\* Mutant of MapSet: set() on a present key keeps the value it has
MapSet_KeepsFirst(m, k, v) ==
  IF MapHas(m, k) THEN m
  ELSE Append(m, [key |-> k, row |-> v])

\* Mutant of MapSet: set() on a present key moves the entry to the end
MapSet_MovesToEnd(m, k, v) ==
  Append(SelectSeq(m, LAMBDA e : e.key # k), [key |-> k, row |-> v])

MapSet(m, k, v) ==
  IF MapHas(m, k) THEN [m EXCEPT ![MapIndex(m, k)].row = v]
  ELSE Append(m, [key |-> k, row |-> v])

\* compareFiles, lines 1186-1204 / 1207-1225: data.forEach(row => ...)
RECURSIVE indexByMatricula(_, _)
indexByMatricula(data, map) ==
  IF data = <<>> THEN map
  ELSE LET row == Head(data)
           matricula == matriculaOf(row)
       IN  indexByMatricula(Tail(data),
             IF Truthy(matricula)
             THEN MapSet(map, normalizedMatricula(matricula), row)
             ELSE map)

file1MapOf(data) == indexByMatricula(data, <<>>)

\* Mutant of file2MapOf: the second file is indexed by the raw cell
RECURSIVE indexByRawMatricula(_, _)
indexByRawMatricula(data, map) ==
  IF data = <<>> THEN map
  ELSE indexByRawMatricula(Tail(data),
         IF Truthy(matriculaOf(Head(data)))
         THEN MapSet(map, matriculaOf(Head(data)), Head(data))
         ELSE map)

file2MapOf_RawKeys(data) == indexByRawMatricula(data, <<>>)

file2MapOf(data) == indexByMatricula(data, <<>>)

-----------------------------------------------------------------------------
(* compareFiles: the timer callback's computation *)

Attr(a1, a2, n) == [archivo1 |-> a1, archivo2 |-> a2, necesitaActualizar |-> n]

\* Mutant of statusOf: the two single-attribute statuses exchanged
statusOf_Swapped(poligonoDiferente, celdaDiferente) ==
  IF poligonoDiferente /\ celdaDiferente THEN "actualizar_ambos"
  ELSE IF poligonoDiferente THEN "actualizar_celda"
  ELSE "actualizar_poligono"

\* lines 1244-1251
statusOf(poligonoDiferente, celdaDiferente) ==
  IF poligonoDiferente /\ celdaDiferente THEN "actualizar_ambos"
  ELSE IF poligonoDiferente THEN "actualizar_poligono"
  ELSE "actualizar_celda"

\* lines 1253-1266: the entry of a key of both maps whose rows differ
entryBoth(matricula, row1, row2) ==
  LET codigoPoligono1 == codigoPoligonoOf(row1)
      codigoPoligono2 == codigoPoligonoOf(row2)
      codigoCelda1 == codigoCeldaOf(row1)
      codigoCelda2 == codigoCeldaOf(row2)
      poligonoDiferente == codigoPoligono1 # codigoPoligono2
      celdaDiferente == codigoCelda1 # codigoCelda2
  IN  [matricula |-> matricula,
       codigoPoligono |-> Attr(codigoPoligono1, codigoPoligono2, poligonoDiferente),
       codigoCelda |-> Attr(codigoCelda1, codigoCelda2, celdaDiferente),
       status |-> statusOf(poligonoDiferente, celdaDiferente)]

\* Mutant of entryNuevo: the flags follow the comparison with the absent
\* side's empty value instead of being set outright
entryNuevo_FlagByValue(matricula, row1) ==
  [matricula |-> matricula,
   codigoPoligono |-> Attr(codigoPoligonoOf(row1), "", codigoPoligonoOf(row1) # ""),
   codigoCelda |-> Attr(codigoCeldaOf(row1), "", codigoCeldaOf(row1) # ""),
   status |-> "nuevo_registro"]

\* lines 1273-1286: the entry of a key of file1Map only
entryNuevo(matricula, row1) ==
  [matricula |-> matricula,
   codigoPoligono |-> Attr(codigoPoligonoOf(row1), "", TRUE),
   codigoCelda |-> Attr(codigoCeldaOf(row1), "", TRUE),
   status |-> "nuevo_registro"]

\* lines 1294-1307: the entry of a key of file2Map only
entrySoloArchivo2(matricula, row2) ==
  [matricula |-> matricula,
   codigoPoligono |-> Attr("", codigoPoligonoOf(row2), FALSE),
   codigoCelda |-> Attr("", codigoCeldaOf(row2), FALSE),
   status |-> "sin_cambios"]

\* lines 1228-1288: file1Map.forEach, from entry i on; acc carries
\* differences, matching and nonMatching
RECURSIVE forEachFile1(_, _, _, _)
forEachFile1(file1Map, file2Map, i, acc) ==
  IF i > Len(file1Map) THEN acc
  ELSE LET matricula == file1Map[i].key
           row1 == file1Map[i].row
       IN  IF MapHas(file2Map, matricula)
           THEN LET row2 == MapGet(file2Map, matricula)
                    d == entryBoth(matricula, row1, row2)
                IN  IF d.codigoPoligono.necesitaActualizar
                       \/ d.codigoCelda.necesitaActualizar
                    THEN forEachFile1(file1Map, file2Map, i + 1,
                           [acc EXCEPT !.nonMatching = @ + 1,
                                       !.differences = Append(@, d)])
                    ELSE forEachFile1(file1Map, file2Map, i + 1,
                           [acc EXCEPT !.matching = @ + 1])
           ELSE forEachFile1(file1Map, file2Map, i + 1,
                  [acc EXCEPT !.nonMatching = @ + 1,
                              !.differences = Append(@, entryNuevo(matricula, row1))])

\* Mutant of forEachFile2: the second pass is left out
forEachFile2_Skipped(file1Map, file2Map, i, acc) == acc

\* lines 1291-1309: file2Map.forEach
RECURSIVE forEachFile2(_, _, _, _)
forEachFile2(file1Map, file2Map, i, acc) ==
  IF i > Len(file2Map) THEN acc
  ELSE LET matricula == file2Map[i].key
           row2 == file2Map[i].row
       IN  IF ~MapHas(file1Map, matricula)
           THEN forEachFile2(file1Map, file2Map, i + 1,
                  [acc EXCEPT !.nonMatching = @ + 1,
                              !.differences =
                                 Append(@, entrySoloArchivo2(matricula, row2))])
           ELSE forEachFile2(file1Map, file2Map, i + 1, acc)

\* Mutant of comparisonOf: nonMatching is taken after the first pass
comparisonOf_FirstPassCount(f1, f2) ==
  LET file1Map == file1MapOf(f1.data)
      file2Map == file2MapOf(f2.data)
      acc0 == [differences |-> <<>>, matching |-> 0, nonMatching |-> 0]
      acc1 == forEachFile1(file1Map, file2Map, 1, acc0)
      acc2 == forEachFile2(file1Map, file2Map, 1, acc1)
  IN  [matching |-> acc2.matching,
       nonMatching |-> acc1.nonMatching,
       total |-> f1.records + f2.records,
       differences |-> acc2.differences]

\* lines 1177-1316: the ComparisonResult of two loaded files
comparisonOf(f1, f2) ==
  LET file1Map == file1MapOf(f1.data)
      file2Map == file2MapOf(f2.data)
      acc0 == [differences |-> <<>>, matching |-> 0, nonMatching |-> 0]
      acc1 == forEachFile1(file1Map, file2Map, 1, acc0)
      acc2 == forEachFile2(file1Map, file2Map, 1, acc1)
  IN  [matching |-> acc2.matching,
       nonMatching |-> acc2.nonMatching,
       total |-> f1.records + f2.records,
       differences |-> acc2.differences]

-----------------------------------------------------------------------------
(* generateScripts and generateQueryScript *)

\* lines 1337 and 1342: the filter on status
isUpdateStatus(status) ==
  status \in {"actualizar_poligono", "actualizar_celda", "actualizar_ambos",
              "nuevo_registro"}

\* Mutant of updatesOf: the test on the empty left value is dropped
updatesOf_EmptyAllowed(d) ==
  (IF d.codigoPoligono.necesitaActualizar
   THEN <<[column |-> "cod_poligono", value |-> d.codigoPoligono.archivo1]>>
   ELSE <<>>)
  \o
  (IF d.codigoCelda.necesitaActualizar
   THEN <<[column |-> "cod_celda", value |-> d.codigoCelda.archivo1]>>
   ELSE <<>>)

\* lines 1344-1350: the SET assignments of one entry
updatesOf(d) ==
  (IF d.codigoPoligono.necesitaActualizar /\ d.codigoPoligono.archivo1 # ""
   THEN <<[column |-> "cod_poligono", value |-> d.codigoPoligono.archivo1]>>
   ELSE <<>>)
  \o
  (IF d.codigoCelda.necesitaActualizar /\ d.codigoCelda.archivo1 # ""
   THEN <<[column |-> "cod_celda", value |-> d.codigoCelda.archivo1]>>
   ELSE <<>>)

\* lines 1341-1362: filter, map to a statement or null, drop the nulls
RECURSIVE updateStatementsOf(_)
updateStatementsOf(differences) ==
  IF differences = <<>> THEN <<>>
  ELSE LET d == Head(differences)
           rest == updateStatementsOf(Tail(differences))
       IN  IF isUpdateStatus(d.status) /\ Len(updatesOf(d)) > 0
           THEN <<[set |-> updatesOf(d),
                   where |-> matriculaCorregida(d.matricula)]>> \o rest
           ELSE rest

\* lines 1336-1338
totalActualizacionesOf(differences) ==
  Cardinality({i \in 1..Len(differences) : isUpdateStatus(differences[i].status)})

\* lines 1364-1393: the update script, one field per templated part; f1 and
\* f2 are the file slots (<<>> for null, <<fileData>> when loaded)
scriptsOf(cmp, f1, f2) ==
  [circuitName |-> IF f1 # <<>> /\ f1[1].hojaProcesada # ""
                   THEN f1[1].hojaProcesada ELSE "CIRCUITO",
   archivo1 |-> IF f1 # <<>> /\ f1[1].name # "" THEN f1[1].name ELSE "N/A",
   archivo2 |-> IF f2 # <<>> /\ f2[1].name # "" THEN f2[1].name ELSE "N/A",
   total |-> cmp.total,
   diferencias |-> Len(cmp.differences),
   totalActualizaciones |-> totalActualizacionesOf(cmp.differences),
   updateStatements |-> updateStatementsOf(cmp.differences)]

\* lines 1457-1494: the id list of generateQueryScript (map, then filter)
matriculasOf(data) ==
  LET mapped == [i \in 1..Len(data) |->
                   IF ~Truthy(matriculaOf(data[i])) THEN <<>>
                   ELSE originalValue(matriculaOf(data[i]))]
  IN  SelectSeq(mapped, LAMBDA matricula : matricula # <<>>)

\* lines 1514-1561: the query script; inList is the one IN (...) of line 1544
queryScriptOf(f1, matriculas) ==
  [circuito |-> f1.hojaProcesada,
   archivo |-> f1.name,
   total |-> Len(matriculas),
   ejemplos |-> SubSeq(matriculas, 1, IF Len(matriculas) < 5 THEN Len(matriculas) ELSE 5),
   inList |-> matriculas]

-----------------------------------------------------------------------------
(* The text-file tool (FileCompress): extraction *)

\* An uploaded file's text is a sequence of lines; an "update" line ends in
\* WHERE instalacao = '<instalacao>'; and any other line has no such clause.
UpdateLine(text) == [kind |-> "update", instalacao |-> text]

OtherLine == [kind |-> "other", instalacao |-> <<>>]

SqlNames == {"LPRA110.sql", "PALA103.SQL"}

FileNames == SqlNames \cup {"notas.txt"}

\* file.name.toLowerCase().endsWith('.sql')
endsWithSql(name) == name \in SqlNames

\* extractCircuitFromFileName: the first pattern that matches, on these names
extractCircuitFromFileName(fileName) ==
  CASE fileName = "LPRA110.sql" -> "LPRA110"
    [] fileName = "PALA103.SQL" -> "PALA103"
    [] OTHER -> "notas.txt"

\* the capture group ([^'"`;\s]+) on the text after the optional quote: the
\* longest run of characters up to the first white space
capture(text) ==
  LET stops == {i \in 1..Len(text) : text[i] = " "}
  IN  IF stops = {} THEN text ELSE SubSeq(text, 1, SetMin(stops) - 1)

\* extractInstalaciones: every match's group 1, no match when the group
\* would be empty
extractInstalaciones(content) ==
  LET matches == SelectSeq(content,
                   LAMBDA line : line.kind = "update" /\ capture(line.instalacao) # <<>>)
  IN  [i \in 1..Len(matches) |-> capture(matches[i].instalacao)]

\* Mutant of newFilesOf: the loop ends at the first file that is no .sql file
RECURSIVE newFilesOf_StopsAtInvalid(_, _)
newFilesOf_StopsAtInvalid(fileList, i) ==
  IF fileList = <<>> \/ ~endsWithSql(Head(fileList).name) THEN <<>>
  ELSE <<[id |-> i,
          name |-> Head(fileList).name,
          content |-> Head(fileList).content,
          instalaciones |-> extractInstalaciones(Head(fileList).content),
          circuito |-> extractCircuitFromFileName(Head(fileList).name)]>>
       \o newFilesOf_StopsAtInvalid(Tail(fileList), i + 1)

\* processFiles, lines 77-100: the accepted files of a batch, in order;
\* i is the index in the batch of the first file of fileList
RECURSIVE newFilesOf(_, _)
newFilesOf(fileList, i) ==
  IF fileList = <<>> THEN <<>>
  ELSE LET file == Head(fileList)
           rest == newFilesOf(Tail(fileList), i + 1)
       IN  IF ~endsWithSql(file.name) THEN rest
           ELSE <<[id |-> i,
                   name |-> file.name,
                   content |-> file.content,
                   instalaciones |-> extractInstalaciones(file.content),
                   circuito |-> extractCircuitFromFileName(file.name)]>> \o rest

\* fileList.flatMap(file => file.instalaciones.map(inst => ({instalacao, circuito})))
RECURSIVE allInstalacionesOf(_)
allInstalacionesOf(fileList) ==
  IF fileList = <<>> THEN <<>>
  ELSE LET file == Head(fileList)
       IN  [i \in 1..Len(file.instalaciones) |->
              [instalacao |-> file.instalaciones[i], circuito |-> file.circuito]]
           \o allInstalacionesOf(Tail(fileList))

-----------------------------------------------------------------------------
(* The text-file tool: generated text *)

\* One line (or one fixed run of lines) of a generated script
Line(kind, n) == [kind |-> kind, instalacao |-> <<>>, circuito |-> "", n |-> n]

\* `    '${item.instalacao}'${index < length - 1 ? ',' : ''}  -- ${item.circuito}`
\* n is 1 when the line ends in a comma
ItemLine(list, index) ==
  [kind |-> "ITEM", instalacao |-> list[index].instalacao,
   circuito |-> list[index].circuito, n |-> IF index < Len(list) THEN 1 ELSE 0]

\* WHERE instalacao IN ( ... ) with one line per element of list
InClause(list) ==
  <<Line("IN_OPEN", 0)>> \o [i \in 1..Len(list) |-> ItemLine(list, i)]
  \o <<Line("IN_CLOSE", 0)>>

\* page.tsx generateValidationScript, lines 146-197 ("SCRIPT DE VALIDACION
\* SIMPLE"): one SELECT and one summary, each over the whole list
generateValidationScriptSimple(fileList) ==
  LET allInstalaciones == allInstalacionesOf(fileList)
  IN  <<Line("HEADER", Len(allInstalaciones)), Line("SELECT", 0)>>
      \o InClause(allInstalaciones)
      \o <<Line("GROUP_ORDER_END", 0), Line("SUMMARY_OPEN", 0)>>
      \o InClause(allInstalaciones)
      \o <<Line("SUMMARY_CLOSE", 0)>>

\* README.md generateNormalValidationScript, lines 297-344
generateNormalValidationScript(allInstalaciones) ==
  <<Line("SELECT", 0)>>
  \o InClause(allInstalaciones)
  \o <<Line("GROUP_ORDER_END", 0), Line("SUMMARY_OPEN", 0)>>
  \o InClause(allInstalaciones)
  \o <<Line("SUMMARY_CLOSE", 0)>>

\* README.md line 348
CHUNK_SIZE == 1000

\* Array.prototype.slice(from, to) with 0 <= from <= to
slice(array, from, to) ==
  SubSeq(array, from + 1, IF to < Len(array) THEN to ELSE Len(array))

\* Mutant of chunkLoop: every slice ends one element early
chunkLoop_ShortSlices(allInstalaciones, i) ==
  [c \in 1..((Len(allInstalaciones) - i + CHUNK_SIZE - 1) \div CHUNK_SIZE) |->
     slice(allInstalaciones, i + (c - 1) * CHUNK_SIZE, i + c * CHUNK_SIZE - 1)]

\* README.md lines 349-354: for (i = 0; i < length; i += CHUNK_SIZE)
\*   chunks.push(allInstalaciones.slice(i, i + CHUNK_SIZE))
RECURSIVE chunkLoop(_, _)
chunkLoop(allInstalaciones, i) ==
  IF i < Len(allInstalaciones)
  THEN <<slice(allInstalaciones, i, i + CHUNK_SIZE)>>
       \o chunkLoop(allInstalaciones, i + CHUNK_SIZE)
  ELSE <<>>

chunksOf(allInstalaciones) == chunkLoop(allInstalaciones, 0)

\* README.md lines 360-387: the SELECT blocks, from chunk c on
RECURSIVE chunkBlocks(_, _)
chunkBlocks(chunks, c) ==
  IF c > Len(chunks) THEN <<>>
  ELSE <<Line("CHUNK_HEADER", c), Line("SELECT", 0)>>
       \o InClause(chunks[c])
       \o <<Line("GROUP_ORDER", 0),
            IF c < Len(chunks) THEN Line("UNION_ALL", 0) ELSE Line("END", 0)>>
       \o chunkBlocks(chunks, c + 1)

\* README.md generateChunkedValidationScript, lines 347-433
generateChunkedValidationScript(allInstalaciones) ==
  LET chunks == chunksOf(allInstalaciones)
  IN  <<Line("SOLUCION_1", Len(chunks))>>
      \o chunkBlocks(chunks, 1)
      \o <<Line("SUMMARY_PLACEHOLDER", 0), Line("CREATE_TEMP", 0)>>
      \o [i \in 1..Len(allInstalaciones) |->
            [kind |-> "INSERT", instalacao |-> allInstalaciones[i].instalacao,
             circuito |-> allInstalaciones[i].circuito, n |-> 0]]
      \o <<Line("JOIN_QUERY", 0), Line("DROP_TEMP", 0)>>

\* Mutant of generateValidationScriptChunking: the chunked form is chosen from
\* 1000 identifiers on
generateValidationScriptChunking_FromLimit(fileList) ==
  LET allInstalaciones == allInstalacionesOf(fileList)
  IN  <<Line("HEADER", Len(allInstalaciones))>>
      \o (IF Len(allInstalaciones) >= 1000
          THEN <<Line("ADVERTENCIA", 0)>>
               \o generateChunkedValidationScript(allInstalaciones)
          ELSE generateNormalValidationScript(allInstalaciones))

\* README.md generateValidationScript, lines 269-294
generateValidationScriptChunking(fileList) ==
  LET allInstalaciones == allInstalacionesOf(fileList)
  IN  <<Line("HEADER", Len(allInstalaciones))>>
      \o (IF Len(allInstalaciones) > 1000
          THEN <<Line("ADVERTENCIA", 0)>>
               \o generateChunkedValidationScript(allInstalaciones)
          ELSE generateNormalValidationScript(allInstalaciones))

\* generateCompressedFile: the banner and text of every file
generateCompressedFile(fileList) ==
  [total |-> Len(fileList),
   archivos |-> [i \in 1..Len(fileList) |->
                   [name |-> fileList[i].name,
                    circuito |-> fileList[i].circuito,
                    instalaciones |-> Len(fileList[i].instalaciones),
                    content |-> fileList[i].content]]]

RECURSIVE SumLen(_)
SumLen(fileList) ==
  IF fileList = <<>> THEN 0
  ELSE Len(Head(fileList).instalaciones) + SumLen(Tail(fileList))

\* generateEmailMessage, lines 200-230
generateEmailMessage(fileList) ==
  [totalInstalaciones |-> SumLen(fileList),
   archivos |-> [i \in 1..Len(fileList) |->
                   [name |-> fileList[i].name,
                    instalaciones |-> Len(fileList[i].instalaciones)]],
   circuitos |-> {fileList[i].circuito : i \in 1..Len(fileList)}]

-----------------------------------------------------------------------------
(* State: initial values of each group *)

Toast(title, variant) == [title |-> title, variant |-> variant]

NormIdle == raw = <<>> /\ pc = "input" /\ ids = <<>>

\* lines 675-676, and no file picked
UploadIdle ==
  workbook = <<>> /\ uploads = <<>> /\ availableSheets = <<>> /\ selectedSheet = ""

AppInit ==
  /\ file1 = <<>> /\ file2 = <<>> /\ comparison = <<>>
  /\ scripts = <<>> /\ queryScript = <<>> /\ isQueryScript = FALSE
  /\ isProcessing = FALSE /\ currentStep = 1 /\ completedSteps = <<>>
  /\ timers = <<>>

TextInit ==
  /\ files = <<>> /\ compressedContent = <<>>
  /\ validationScript = <<>> /\ emailMessage = <<>>

\* FileData as processExcelFile resolves it: records is processedData.length
FileData(name, data) ==
  [name |-> name, records |-> Len(data), data |-> data, hojaProcesada |-> "LPRA110"]

-----------------------------------------------------------------------------
(* The read sites of an identifier *)

KeysOf(map) == [i \in 1..Len(map) |-> map[i].key]

WhereOf(script) ==
  [i \in 1..Len(script.updateStatements) |-> script.updateStatements[i].where]

\* Every place that reads an identifier, run on one record that holds raw
ReadIds ==
  /\ pc = "input"
  /\ LET data == <<Row(raw, "10", "20")>>
         f1 == FileData("archivo1.xlsx", data)
         f2 == FileData("archivo2.xlsx", <<>>)
     IN  ids' = [file1 |-> KeysOf(file1MapOf(data)),
                 file2 |-> KeysOf(file2MapOf(data)),
                 query |-> matriculasOf(data),
                 where |-> WhereOf(scriptsOf(comparisonOf(f1, f2), <<f1>>, <<f2>>)),
                 extracted |-> extractInstalaciones(<<UpdateLine(raw)>>),
                 normalizeMatricula |-> normalizeMatricula(raw)]
  /\ pc' = "read"
  /\ UNCHANGED <<page, toast, raw, appVars, textVars, uploadVars>>

InitNorm ==
  /\ page = "none" /\ toast = <<>>
  /\ raw \in Str(MaxLen) /\ pc = "input" /\ ids = <<>>
  /\ AppInit /\ TextInit /\ UploadIdle

NextNorm == ReadIds

SpecNorm == InitNorm /\ [][NextNorm]_vars

-----------------------------------------------------------------------------
(* The comparison page *)

\* updateStep as run in a closure that captured `steps` as completedSteps
updateStep(step, steps) ==
  /\ currentStep' = step
  /\ completedSteps' = IF \E i \in 1..Len(steps) : steps[i] = step
                       THEN completedSteps
                       ELSE Append(steps, step)

\* compareFiles up to the setTimeout call
compareFiles ==
  /\ page = "datamatch"
  /\ Len(timers) < MaxTimers
  /\ IF file1 = <<>> \/ file2 = <<>>
     THEN UNCHANGED <<isProcessing, timers>>
     ELSE /\ isProcessing' = TRUE
          /\ timers' = Append(timers, [file1 |-> file1[1], file2 |-> file2[1],
                                       completedSteps |-> completedSteps])
  /\ toast' = <<>>
  /\ UNCHANGED <<page, uploadVars, normVars, textVars, file1, file2, comparison, scripts,
                 queryScript, isQueryScript, currentStep, completedSteps>>

\* the callback compareFiles handed to setTimeout
compareFilesTimeout ==
  /\ timers # <<>>
  /\ LET t == Head(timers)
     IN  /\ comparison' = <<comparisonOf(t.file1, t.file2)>>
         /\ updateStep(3, t.completedSteps)
         /\ toast' = <<Toast("Comparacion completada", "default")>>
  /\ isProcessing' = FALSE
  /\ timers' = Tail(timers)
  /\ UNCHANGED <<page, uploadVars, normVars, textVars, file1, file2, scripts,
                 queryScript, isQueryScript>>

generateScripts ==
  /\ page = "datamatch"
  /\ IF comparison = <<>>
     THEN /\ toast' = <<>>
          /\ UNCHANGED <<scripts, completedSteps>>
     ELSE /\ scripts' = <<scriptsOf(comparison[1], file1, file2)>>
          /\ toast' = <<Toast("Scripts generados correctamente", "default")>>
          /\ completedSteps' =
               IF \E i \in 1..Len(completedSteps) : completedSteps[i] = 3
               THEN completedSteps ELSE Append(completedSteps, 3)
  /\ UNCHANGED <<page, uploadVars, normVars, textVars, file1, file2, comparison,
                 queryScript, isQueryScript, isProcessing, currentStep, timers>>

generateQueryScript ==
  /\ page = "datamatch"
  /\ IF file1 = <<>>
     THEN /\ toast' = <<Toast("Error", "destructive")>>
          /\ UNCHANGED <<queryScript, isQueryScript, completedSteps>>
     ELSE LET matriculas == matriculasOf(file1[1].data)
          IN  IF Len(matriculas) = 0
              THEN /\ toast' = <<Toast("Error", "destructive")>>
                   /\ UNCHANGED <<queryScript, isQueryScript, completedSteps>>
              ELSE /\ queryScript' = <<queryScriptOf(file1[1], matriculas)>>
                   /\ isQueryScript' = TRUE
                   /\ toast' = <<Toast("Script de consulta generado", "default")>>
                   /\ completedSteps' =
                        IF \E i \in 1..Len(completedSteps) : completedSteps[i] = 1
                        THEN completedSteps ELSE Append(completedSteps, 1)
  /\ UNCHANGED <<page, uploadVars, normVars, textVars, file1, file2, comparison, scripts,
                 isProcessing, currentStep, timers>>

\* the identifier cells, polygon codes and cell codes datasets are drawn from
IdPool == {<<>>, <<"5">>, <<"0", "0", "0", "0", "0", "5">>, <<"A">>}

PoligonoPool == {"", "10"}

CeldaPool == {"", "20"}

Rows == {Row(m, p, c) : m \in IdPool, p \in PoligonoPool, c \in CeldaPool}

DataOfLen(n) == [1..n -> Rows]

InitCmp ==
  /\ page = "datamatch" /\ toast = <<>>
  /\ NormIdle /\ TextInit /\ UploadIdle
  /\ \E n1 \in 0..MaxRows : \E n2 \in 0..(MaxRows - n1) :
        /\ file1 \in {<<FileData("archivo1.xlsx", d)>> : d \in DataOfLen(n1)}
                     \cup (IF n1 = 0 THEN {<<>>} ELSE {})
        /\ file2 \in {<<FileData("archivo2.xlsx", d)>> : d \in DataOfLen(n2)}
                     \cup (IF n2 = 0 THEN {<<>>} ELSE {})
  /\ comparison = <<>> /\ scripts = <<>> /\ queryScript = <<>>
  /\ isQueryScript = FALSE /\ isProcessing = FALSE
  /\ currentStep = 1 /\ completedSteps = <<>> /\ timers = <<>>

NextCmp ==
  \/ compareFiles
  \/ compareFilesTimeout
  \/ generateScripts
  \/ generateQueryScript

SpecCmp == InitCmp /\ [][NextCmp]_vars

\* the comparison alone, without the generation of scripts
NextCompare ==
  \/ compareFiles
  \/ compareFilesTimeout

SpecCompare == InitCmp /\ [][NextCompare]_vars

\* rows with one cell code, for datasets that repeat identifiers
KeyRows == {Row(m, p, "20") : m \in IdPool \cup {<<"B">>}, p \in PoligonoPool}

\* the rows of the shorter dataset: polygon code '10'
ShortRows == {r \in KeyRows : r.CODIGO_POLIGONO = "10"}

\* both files loaded: one with up to MaxRows + 1 rows, the other with at
\* most one row
InitOrder ==
  /\ page = "datamatch" /\ toast = <<>>
  /\ NormIdle /\ TextInit /\ UploadIdle
  /\ \E n \in 0..(MaxRows + 1) : \E k \in 0..1 :
        \E long \in [1..n -> KeyRows] : \E short \in [1..k -> ShortRows] :
           \/ /\ file1 = <<FileData("archivo1.xlsx", long)>>
              /\ file2 = <<FileData("archivo2.xlsx", short)>>
           \/ /\ file1 = <<FileData("archivo1.xlsx", short)>>
              /\ file2 = <<FileData("archivo2.xlsx", long)>>
  /\ comparison = <<>> /\ scripts = <<>> /\ queryScript = <<>>
  /\ isQueryScript = FALSE /\ isProcessing = FALSE
  /\ currentStep = 1 /\ completedSteps = <<>> /\ timers = <<>>

SpecOrder == InitOrder /\ [][NextCompare]_vars

\* the comparison page with the same dataset loaded in both slots
InitSelf ==
  /\ page = "datamatch" /\ toast = <<>>
  /\ NormIdle /\ TextInit /\ UploadIdle
  /\ \E n \in 0..MaxRows : \E d \in DataOfLen(n) :
        /\ file1 = <<FileData("archivo1.xlsx", d)>>
        /\ file2 = <<FileData("archivo2.xlsx", d)>>
  /\ comparison = <<>> /\ scripts = <<>> /\ queryScript = <<>>
  /\ isQueryScript = FALSE /\ isProcessing = FALSE
  /\ currentStep = 1 /\ completedSteps = <<>> /\ timers = <<>>

SpecSelf == InitSelf /\ [][NextCmp]_vars

-----------------------------------------------------------------------------
(* The text-file tool; page is "filecompress" for page.tsx's version and   *)
(* "filecompress_chunking" for the version of README.md lines 107-781      *)

TextPages == {"filecompress", "filecompress_chunking"}

\* generateValidationScript of the version the session runs
generateValidationScript(fileList) ==
  IF page = "filecompress_chunking"
  THEN generateValidationScriptChunking(fileList)
  ELSE generateValidationScriptSimple(fileList)

\* the three generate calls made for a non-empty list; README.md's version
\* has no generateEmailMessage
generateAll(fileList) ==
  /\ compressedContent' = <<generateCompressedFile(fileList)>>
  /\ validationScript' = <<generateValidationScript(fileList)>>
  /\ emailMessage' = IF page = "filecompress"
                     THEN <<generateEmailMessage(fileList)>>
                     ELSE emailMessage

\* the "Archivo no valido" toast of every file of the batch that is skipped
skippedToasts(fileList) ==
  LET skipped == SelectSeq(fileList, LAMBDA file : ~endsWithSql(file.name))
  IN  [i \in 1..Len(skipped) |-> Toast("Archivo no valido", "destructive")]

\* processFiles on a batch whose files can all be read
processFiles(fileList) ==
  /\ page \in TextPages
  /\ LET newFiles == newFilesOf(fileList, 0)
     IN  /\ files' = newFiles
         /\ IF Len(newFiles) > 0
            THEN generateAll(newFiles)
            ELSE UNCHANGED <<compressedContent, validationScript, emailMessage>>
         /\ toast' = Append(skippedToasts(fileList),
                            Toast("Archivos procesados", "default"))
  /\ UNCHANGED <<page, uploadVars, normVars, appVars>>

clearFiles ==
  /\ page \in TextPages
  /\ files' = <<>>
  /\ compressedContent' = <<>>
  /\ validationScript' = <<>>
  /\ emailMessage' = IF page = "filecompress" THEN <<>> ELSE emailMessage
  /\ toast' = <<Toast("Archivos limpiados", "default")>>
  /\ UNCHANGED <<page, uploadVars, normVars, appVars>>

removeFile(fileId) ==
  /\ page \in TextPages
  /\ LET updatedFiles == SelectSeq(files, LAMBDA f : f.id # fileId)
     IN  /\ files' = updatedFiles
         /\ IF Len(updatedFiles) > 0
            THEN generateAll(updatedFiles)
            ELSE /\ compressedContent' = <<>>
                 /\ validationScript' = <<>>
                 /\ emailMessage' = IF page = "filecompress" THEN <<>>
                                    ELSE emailMessage
  /\ toast' = <<Toast("Archivo eliminado", "default")>>
  /\ UNCHANGED <<page, uploadVars, normVars, appVars>>

\* the text of a file with n WHERE instalacao = '...' statements after a
\* comment line
ContentOfSize(n) == <<OtherLine>> \o [i \in 1..n |-> UpdateLine(ToDigits(i))]

\* the files a batch is drawn from: a file of exactly CHUNK_SIZE statements,
\* one with none, one with a single statement and one that is no .sql file
UploadFiles ==
  {[name |-> "LPRA110.sql", content |-> ContentOfSize(CHUNK_SIZE)],
   [name |-> "LPRA110.sql", content |-> ContentOfSize(0)],
   [name |-> "PALA103.SQL", content |-> ContentOfSize(1)],
   [name |-> "notas.txt", content |-> ContentOfSize(1)]}

Batches == UNION {[1..k -> UploadFiles] : k \in 0..MaxFiles}

\* the numbers of rows of the comparison page's first file
QuerySizes == {0, 1, 2, CHUNK_SIZE - 1, CHUNK_SIZE, CHUNK_SIZE + 1}

\* the first file of the comparison page: n rows with identifiers 1..n, or
\* n rows whose identifier cell is empty
QueryFiles ==
  {FileData("archivo1.xlsx", [i \in 1..n |-> Row(ToDigits(i), "10", "20")]) :
     n \in QuerySizes}
  \cup {FileData("archivo1.xlsx", [i \in 1..n |-> Row(<<>>, "10", "20")]) :
          n \in {1, 2}}

InitScripts ==
  /\ page \in TextPages \cup {"datamatch"}
  /\ toast = <<>>
  /\ NormIdle /\ TextInit /\ UploadIdle
  /\ file1 \in IF page = "datamatch" THEN {<<f>> : f \in QueryFiles} \cup {<<>>}
               ELSE {<<>>}
  /\ file2 = <<>> /\ comparison = <<>> /\ scripts = <<>> /\ queryScript = <<>>
  /\ isQueryScript = FALSE /\ isProcessing = FALSE
  /\ currentStep = 1 /\ completedSteps = <<>> /\ timers = <<>>

NextScripts ==
  \/ \E fileList \in Batches : processFiles(fileList)
  \/ \E fileId \in 0..(MaxFiles - 1) : removeFile(fileId)
  \/ clearFiles
  \/ generateQueryScript

SpecScripts == InitScripts /\ [][NextScripts]_vars

-----------------------------------------------------------------------------
(* processExcelFile: sheet detection, column mapping and row building.      *)
(* A cell is a sequence of characters, a header a string.                   *)

\* A sheet as XLSX.utils.sheet_to_json(worksheet, {header: 1}) returns it:
\* the header row and the rows after it; a sheet without cells has neither.
Sheet(name, headers, rows) == [name |-> name, headers |-> headers, rows |-> rows]

\* jsonData.length with blank rows kept (detectValidSheet, line 707)
jsonDataLength(sheet) ==
  IF sheet.headers = <<>> THEN 0 ELSE 1 + Len(sheet.rows)

\* lines 717-724: the headers that contain 'matricula', 'instalacion',
\* 'codigo', 'matrícula' or 'id' in lower case
DetectMatriculaHeaders == {"MATRICULA", "CODIGO POLIGONO", "CODIGO CELDA"}

\* lines 774-783: the same with 'instalacao' for 'instalacion'
MapMatriculaHeaders ==
  {"MATRICULA", "INSTALACAO", "CODIGO POLIGONO", "CODIGO CELDA"}

\* lines 726-732 and 784-791: 'poligono', 'polígono', 'cod_poligono'
PoligonoHeaders == {"POLIGONO", "CODIGO POLIGONO"}

\* lines 734-739 and 792-798: 'celda', 'cod_celda'
CeldaHeaders == {"CELDA", "CODIGO CELDA"}

\* lines 751-756: cell !== null && cell !== undefined && cell !== '' &&
\* String(cell).trim().length > 0
hasData(row) == \E i \in 1..Len(row) : Len(trim(row[i])) > 0

\* Mutant of detectValidSheet: the tests on the number of rows and of header
\* cells are left out
detectValidSheet_NoMinimum(sheet) ==
  LET firstRow == sheet.headers
      keyColumnsFound ==
        (IF \E i \in 1..Len(firstRow) : firstRow[i] \in DetectMatriculaHeaders
         THEN 1 ELSE 0)
        + (IF \E i \in 1..Len(firstRow) : firstRow[i] \in PoligonoHeaders
           THEN 1 ELSE 0)
        + (IF \E i \in 1..Len(firstRow) : firstRow[i] \in CeldaHeaders
           THEN 1 ELSE 0)
  IN  /\ keyColumnsFound >= 2
      /\ \E i \in 1..Len(sheet.rows) : i <= 4 /\ hasData(sheet.rows[i])

\* lines 704-769
detectValidSheet(sheet) ==
  IF jsonDataLength(sheet) < 3 THEN FALSE
  ELSE IF Len(sheet.headers) < 3 THEN FALSE
  ELSE LET firstRow == sheet.headers
           hasMatricula == \E i \in 1..Len(firstRow) : firstRow[i] \in DetectMatriculaHeaders
           hasPoligono == \E i \in 1..Len(firstRow) : firstRow[i] \in PoligonoHeaders
           hasCelda == \E i \in 1..Len(firstRow) : firstRow[i] \in CeldaHeaders
           keyColumnsFound == (IF hasMatricula THEN 1 ELSE 0)
                              + (IF hasPoligono THEN 1 ELSE 0)
                              + (IF hasCelda THEN 1 ELSE 0)
           last == IF jsonDataLength(sheet) < 5 THEN jsonDataLength(sheet) ELSE 5
       IN  IF keyColumnsFound >= 2
           THEN \E i \in 1..(last - 1) : hasData(sheet.rows[i])
           ELSE FALSE

\* headers.find(h => ...): <<>> for undefined
find(headers, matching) ==
  LET found == {i \in 1..Len(headers) : headers[i] \in matching}
  IN  IF found = {} THEN <<>> ELSE <<headers[SetMin(found)]>>

\* lines 772-803
mapColumns(headers) ==
  [matricula |-> find(headers, MapMatriculaHeaders),
   poligono |-> find(headers, PoligonoHeaders),
   celda |-> find(headers, CeldaHeaders)]

\* the sheet names that contain 'hoja' or 'sheet' or are all digits
GenericNames == {"Hoja1", "Sheet2", "123"}

\* lines 833-835
isSpecificName(name) == name \notin GenericNames

\* Mutant of circuitSheetOf: the rule on the name together with the content
\* comes before the rule on the content alone
circuitSheetOf_NameFirst(sheets) ==
  LET valid == {i \in 1..Len(sheets) : detectValidSheet(sheets[i])}
      specificValid == {i \in 1..Len(sheets) :
                          isSpecificName(sheets[i].name) /\ detectValidSheet(sheets[i])}
      specific == {i \in 1..Len(sheets) : isSpecificName(sheets[i].name)}
  IN  IF specificValid # {}
      THEN [sheet |-> SetMin(specificValid),
            detectionMethod |-> "nombre_especifico_con_validacion"]
      ELSE IF valid # {}
      THEN [sheet |-> SetMin(valid), detectionMethod |-> "contenido_valido"]
      ELSE IF specific # {}
      THEN [sheet |-> SetMin(specific),
            detectionMethod |-> "nombre_especifico_sin_validacion"]
      ELSE IF Len(sheets) > 1
      THEN [sheet |-> 2, detectionMethod |-> "segunda_hoja"]
      ELSE [sheet |-> 1, detectionMethod |-> "primera_hoja"]

\* lines 805-855: the index of circuitSheet in SheetNames, and detectionMethod
circuitSheetOf(sheets) ==
  LET valid == {i \in 1..Len(sheets) : detectValidSheet(sheets[i])}
      specificValid == {i \in 1..Len(sheets) :
                          isSpecificName(sheets[i].name) /\ detectValidSheet(sheets[i])}
      specific == {i \in 1..Len(sheets) : isSpecificName(sheets[i].name)}
  IN  IF valid # {}
      THEN [sheet |-> SetMin(valid), detectionMethod |-> "contenido_valido"]
      ELSE IF specificValid # {}
      THEN [sheet |-> SetMin(specificValid),
            detectionMethod |-> "nombre_especifico_con_validacion"]
      ELSE IF specific # {}
      THEN [sheet |-> SetMin(specific),
            detectionMethod |-> "nombre_especifico_sin_validacion"]
      ELSE IF Len(sheets) > 1
      THEN [sheet |-> 2, detectionMethod |-> "segunda_hoja"]
      ELSE [sheet |-> 1, detectionMethod |-> "primera_hoja"]

\* lines 907-915: the rows that hold a cell with content
rowsOf(sheet) ==
  SelectSeq(sheet.rows,
            LAMBDA row : \E i \in 1..Len(row) :
               trim(row[i]) \notin {<<>>, <<"n", "u", "l", "l">>,
                                    <<"u", "n", "d", "e", "f", "i", "n", "e", "d">>})

\* lines 940-970, for a key column
cleanValue(value) ==
  LET strValue == trim(value)
  IN  IF strValue \in {<<"N", "/", "A">>, <<"N", "U", "L", "L">>,
                       <<"u", "n", "d", "e", "f", "i", "n", "e", "d">>}
      THEN <<>> ELSE strValue

\* the text of a cell as one string
RECURSIVE Join(_)
Join(cell) == IF cell = <<>> THEN "" ELSE Head(cell) \o Join(Tail(cell))

indexOf(headers, header) == SetMin({i \in 1..Len(headers) : headers[i] = header})

\* Mutant of processedRow: an unmapped identifier falls back to the first
\* column
processedRow_FirstColumnId(row, headers, columnMapping) ==
  [MATRICULA |-> IF columnMapping.matricula # <<>>
                 THEN cleanValue(row[indexOf(headers, columnMapping.matricula[1])])
                 ELSE cleanValue(row[1]),
   CODIGO_POLIGONO |-> IF columnMapping.poligono # <<>>
                       THEN Join(cleanValue(row[indexOf(headers, columnMapping.poligono[1])]))
                       ELSE "",
   CODIGO_CELDA |-> IF columnMapping.celda # <<>>
                    THEN Join(cleanValue(row[indexOf(headers, columnMapping.celda[1])]))
                    ELSE "",
   defined |-> {f \in {"matricula", "poligono", "celda"} : columnMapping[f] # <<>>}]

\* lines 973-1026: the object of one row; defined holds the key columns that
\* were assigned (the others are undefined, which every read site takes as '')
processedRow(row, headers, columnMapping) ==
  [MATRICULA |-> IF columnMapping.matricula # <<>>
                 THEN cleanValue(row[indexOf(headers, columnMapping.matricula[1])])
                 ELSE <<>>,
   CODIGO_POLIGONO |-> IF columnMapping.poligono # <<>>
                       THEN Join(cleanValue(row[indexOf(headers, columnMapping.poligono[1])]))
                       ELSE "",
   CODIGO_CELDA |-> IF columnMapping.celda # <<>>
                    THEN Join(cleanValue(row[indexOf(headers, columnMapping.celda[1])]))
                    ELSE "",
   defined |-> {f \in {"matricula", "poligono", "celda"} : columnMapping[f] # <<>>}]

\* lines 899-1026: processedData of one sheet
processedDataOf(sheet) ==
  LET rows == rowsOf(sheet)
  IN  [i \in 1..Len(rows) |->
         processedRow(rows[i], sheet.headers, mapColumns(sheet.headers))]

\* Mutant of fileDataOf: hojasDisponibles leaves out the generic sheet names
fileDataOf_SpecificOnly(name, sheets, i) ==
  [name |-> name,
   records |-> Len(processedDataOf(sheets[i])),
   columns |-> sheets[i].headers,
   data |-> processedDataOf(sheets[i]),
   hojaProcesada |-> sheets[i].name,
   hojasDisponibles |->
     SelectSeq([j \in 1..Len(sheets) |-> sheets[j].name], isSpecificName)]

\* lines 1028-1036
fileDataOf(name, sheets, i) ==
  [name |-> name,
   records |-> Len(processedDataOf(sheets[i])),
   columns |-> sheets[i].headers,
   data |-> processedDataOf(sheets[i]),
   hojaProcesada |-> sheets[i].name,
   hojasDisponibles |-> [j \in 1..Len(sheets) |-> sheets[j].name]]

\* A workbook file: corrupt when XLSX.read (or the FileReader) fails on it
Workbook(name, corrupt, sheets) == [name |-> name, corrupt |-> corrupt, sheets |-> sheets]

\* lines 680-1047: the outcome of the promise; detected is the sheet choice
\* made before the promise settled (<<>> when none was made)
processExcelFile(file) ==
  IF file.corrupt
  THEN [ok |-> FALSE, error |-> "Error al leer el archivo",
        detected |-> <<>>, fileData |-> <<>>]
  ELSE IF Len(file.sheets) = 0
  THEN [ok |-> FALSE, error |-> "El archivo Excel no contiene hojas",
        detected |-> <<>>, fileData |-> <<>>]
  ELSE LET circuitSheet == circuitSheetOf(file.sheets)
       IN  IF file.sheets[circuitSheet.sheet].headers = <<>>
           THEN [ok |-> FALSE, error |-> "El archivo Excel esta vacio",
                 detected |-> <<circuitSheet>>, fileData |-> <<>>]
           ELSE [ok |-> TRUE, error |-> "",
                 detected |-> <<circuitSheet>>,
                 fileData |-> <<fileDataOf(file.name, file.sheets, circuitSheet.sheet)>>]

\* lines 1667-1700: the issues shown for a loaded file
validateFileData(data) ==
  IF Len(data) = 0 THEN <<"El archivo no contiene datos">>
  ELSE LET firstRow == data[1]
           validRows == SelectSeq(data, LAMBDA row :
                          Truthy(row.MATRICULA) /\ trim(row.MATRICULA) # <<>>
                          /\ trim(row.MATRICULA) # <<"N", "/", "A">>)
       IN  (IF "matricula" \notin firstRow.defined
            THEN <<"No se detecto columna de matricula">> ELSE <<>>)
           \o (IF "poligono" \notin firstRow.defined
               THEN <<"No se detecto columna de codigo de poligono">> ELSE <<>>)
           \o (IF "celda" \notin firstRow.defined
               THEN <<"No se detecto columna de codigo de celda">> ELSE <<>>)
           \o (IF Len(validRows) = 0
               THEN <<"No se encontraron matriculas validas">>
               ELSE IF Len(validRows) < Len(data)
               THEN <<"filas tienen datos invalidos o N/A">>
               ELSE <<>>)

-----------------------------------------------------------------------------
(* The comparison page's upload, sheet and clear handlers *)

\* handleFileUpload, lines 1050-1059: up to `await processExcelFile(file)`;
\* the continuation keeps the file1, file2 and completedSteps of this render
handleFileUpload(fileNumber, file) ==
  /\ page = "datamatch"
  /\ isProcessing' = TRUE
  /\ uploads' = Append(uploads,
       [fileNumber |-> fileNumber,
        file |-> file,
        otherLoaded |-> IF fileNumber = 1 THEN file2 # <<>> ELSE file1 # <<>>,
        completedSteps |-> completedSteps])
  /\ toast' = <<>>
  /\ UNCHANGED <<page, normVars, textVars, workbook, availableSheets,
                 selectedSheet, file1, file2, comparison, scripts, queryScript,
                 isQueryScript, currentStep, completedSteps, timers>>

\* a settlement that empties the slot of an upload that failed
handleFileUploadAwait_ClearsSlot(n) ==
  /\ n \in 1..Len(uploads)
  /\ LET u == uploads[n]
         result == processExcelFile(u.file)
         detected == IF result.detected = <<>> THEN <<>>
                     ELSE <<Toast("Hoja detectada", "default")>>
     IN  /\ IF result.detected = <<>>
            THEN UNCHANGED <<availableSheets, selectedSheet>>
            ELSE /\ availableSheets' =
                      [j \in 1..Len(u.file.sheets) |-> u.file.sheets[j].name]
                 /\ selectedSheet' = u.file.sheets[result.detected[1].sheet].name
         /\ IF result.ok
            THEN /\ file1' = IF u.fileNumber = 1 THEN result.fileData ELSE file1
                 /\ file2' = IF u.fileNumber = 2 THEN result.fileData ELSE file2
                 /\ toast' = Append(detected,
                                    Toast("Archivo procesado exitosamente", "default"))
                 /\ IF u.otherLoaded
                    THEN updateStep(2, u.completedSteps)
                    ELSE UNCHANGED <<currentStep, completedSteps>>
            ELSE /\ file1' = IF u.fileNumber = 1 THEN <<>> ELSE file1
                 /\ file2' = IF u.fileNumber = 2 THEN <<>> ELSE file2
                 /\ toast' = Append(detected,
                                    Toast("Error al procesar archivo", "destructive"))
                 /\ UNCHANGED <<currentStep, completedSteps>>
  /\ uploads' = SubSeq(uploads, 1, n - 1) \o SubSeq(uploads, n + 1, Len(uploads))
  /\ isProcessing' = FALSE
  /\ UNCHANGED <<page, normVars, textVars, workbook, comparison, scripts,
                 queryScript, isQueryScript, timers>>

\* the reader's onload (lines 684-1041) and the rest of handleFileUpload
\* (lines 1061-1096) for the n-th waiting upload
handleFileUploadAwait(n) ==
  /\ n \in 1..Len(uploads)
  /\ LET u == uploads[n]
         result == processExcelFile(u.file)
         detected == IF result.detected = <<>> THEN <<>>
                     ELSE <<Toast("Hoja detectada", "default")>>
     IN  /\ IF result.detected = <<>>
            THEN UNCHANGED <<availableSheets, selectedSheet>>
            ELSE /\ availableSheets' =
                      [j \in 1..Len(u.file.sheets) |-> u.file.sheets[j].name]
                 /\ selectedSheet' = u.file.sheets[result.detected[1].sheet].name
         /\ IF result.ok
            THEN /\ file1' = IF u.fileNumber = 1 THEN result.fileData ELSE file1
                 /\ file2' = IF u.fileNumber = 2 THEN result.fileData ELSE file2
                 /\ toast' = Append(detected,
                                    Toast("Archivo procesado exitosamente", "default"))
                 /\ IF u.otherLoaded
                    THEN updateStep(2, u.completedSteps)
                    ELSE UNCHANGED <<currentStep, completedSteps>>
            ELSE /\ toast' = Append(detected,
                                    Toast("Error al procesar archivo", "destructive"))
                 /\ UNCHANGED <<file1, file2, currentStep, completedSteps>>
  /\ uploads' = SubSeq(uploads, 1, n - 1) \o SubSeq(uploads, n + 1, Len(uploads))
  /\ isProcessing' = FALSE
  /\ UNCHANGED <<page, normVars, textVars, workbook, comparison, scripts,
                 queryScript, isQueryScript, timers>>

\* lines 2007-2016: the Select of a loaded file's card, onValueChange
selectSheet(fileNum, value) ==
  /\ page = "datamatch"
  /\ IF fileNum = 1
     THEN /\ file1 # <<>>
          /\ \E j \in 1..Len(file1[1].hojasDisponibles) :
                value = file1[1].hojasDisponibles[j]
          /\ file1' = <<[file1[1] EXCEPT !.hojaProcesada = value]>>
          /\ UNCHANGED file2
     ELSE /\ file2 # <<>>
          /\ \E j \in 1..Len(file2[1].hojasDisponibles) :
                value = file2[1].hojasDisponibles[j]
          /\ file2' = <<[file2[1] EXCEPT !.hojaProcesada = value]>>
          /\ UNCHANGED file1
  /\ toast' = <<>>
  /\ UNCHANGED <<page, normVars, textVars, uploadVars, comparison, scripts,
                 queryScript, isQueryScript, isProcessing, currentStep,
                 completedSteps, timers>>

\* lines 1136-1166, called by "Aplicar" (line 2039) with file.hojaProcesada
reprocessFileWithSheet(fileNumber) ==
  /\ page = "datamatch"
  /\ LET currentFile == IF fileNumber = 1 THEN file1 ELSE file2
     IN  IF currentFile = <<>>
         THEN /\ toast' = <<>>
              /\ UNCHANGED <<file1, file2, isProcessing>>
         ELSE LET sheetName == currentFile[1].hojaProcesada
                  updatedFile == [currentFile[1] EXCEPT !.hojaProcesada = sheetName]
              IN  /\ file1' = IF fileNumber = 1 THEN <<updatedFile>> ELSE file1
                  /\ file2' = IF fileNumber = 2 THEN <<updatedFile>> ELSE file2
                  /\ toast' = <<Toast("Hoja cambiada exitosamente", "default")>>
                  /\ isProcessing' = FALSE
  /\ UNCHANGED <<page, normVars, textVars, uploadVars, comparison, scripts,
                 queryScript, isQueryScript, currentStep, completedSteps, timers>>

\* lines 1615-1635
clearAll ==
  /\ page = "datamatch"
  /\ file1' = <<>>
  /\ file2' = <<>>
  /\ comparison' = <<>>
  /\ scripts' = <<>>
  /\ queryScript' = <<>>
  /\ isQueryScript' = FALSE
  /\ currentStep' = 1
  /\ completedSteps' = <<>>
  /\ toast' = <<Toast("Aplicacion limpiada", "default")>>
  /\ UNCHANGED <<page, normVars, textVars, uploadVars, isProcessing, timers>>

\* lines 1638-1664; the test of line 1650 reads this render's file1 and file2
clearFile(fileNumber) ==
  /\ page = "datamatch"
  /\ IF fileNumber = 1
     THEN /\ file1' = <<>>
          /\ queryScript' = <<>>
          /\ isQueryScript' = FALSE
          /\ UNCHANGED file2
     ELSE /\ file2' = <<>>
          /\ UNCHANGED <<file1, queryScript, isQueryScript>>
  /\ IF file1 = <<>> \/ file2 = <<>>
     THEN comparison' = <<>> /\ scripts' = <<>>
     ELSE UNCHANGED <<comparison, scripts>>
  /\ toast' = <<Toast("Archivo eliminado", "default")>>
  /\ UNCHANGED <<page, normVars, textVars, uploadVars, isProcessing,
                 currentStep, completedSteps, timers>>

\* cells and rows the enumerated sheets are built from
Cell5 == <<"5">>

Cell10 == <<"1", "0">>

Cell20 == <<"2", "0">>

SheetNamePool == {"Hoja1", "LPRA110", "123"}

\* header row and rows of the enumerated sheets: a sheet without cells; a
\* header row, without identifier header, alone; full headers with one row, with two rows, with two blank
\* rows; two key headers of two; no key header; no polygon header; no
\* identifier header
SheetContents ==
  {[headers |-> <<>>, rows |-> <<>>],
   [headers |-> <<"NOMBRE", "POLIGONO", "CELDA">>, rows |-> <<>>],
   [headers |-> <<"MATRICULA", "POLIGONO", "CELDA">>,
    rows |-> << <<Cell5, Cell10, Cell20>> >>],
   [headers |-> <<"MATRICULA", "POLIGONO", "CELDA">>,
    rows |-> << <<Cell5, Cell10, Cell20>>, <<<<"A">>, <<>>, Cell20>> >>],
   [headers |-> <<"MATRICULA", "POLIGONO", "CELDA">>,
    rows |-> << <<<<>>, <<>>, <<>>>>, <<<<>>, <<>>, <<>>>> >>],
   [headers |-> <<"MATRICULA", "POLIGONO">>,
    rows |-> << <<Cell5, Cell10>>, <<<<"A">>, Cell10>> >>],
   [headers |-> <<"NOMBRE", "OTRO", "NOTA">>,
    rows |-> << <<Cell5, Cell10, Cell20>>, <<<<"A">>, <<>>, Cell20>> >>],
   [headers |-> <<"MATRICULA", "NOMBRE", "CELDA">>,
    rows |-> << <<Cell5, Cell10, Cell20>>, <<<<"A">>, <<>>, Cell20>> >>],
   [headers |-> <<"NOMBRE", "POLIGONO", "CELDA">>,
    rows |-> << <<Cell5, Cell10, Cell20>>, <<<<"A">>, <<>>, Cell20>> >>]}

Sheets == {Sheet(name, c.headers, c.rows) : name \in SheetNamePool, c \in SheetContents}

\* the workbooks of up to MaxSheets sheets with distinct names, and one that
\* cannot be read
Workbooks ==
  {Workbook("archivo.xlsx", TRUE, <<>>)}
  \cup {Workbook("archivo.xlsx", FALSE, sheets) :
          sheets \in {q \in UNION {[1..k -> Sheets] : k \in 0..MaxSheets} :
                        \A i \in 1..Len(q) : \A j \in 1..Len(q) :
                           i # j => q[i].name # q[j].name}}

\* the comparison page with one workbook at hand for both slots
InitSheets ==
  /\ page = "datamatch" /\ toast = <<>>
  /\ NormIdle /\ TextInit /\ AppInit
  /\ workbook \in {<<w>> : w \in Workbooks}
  /\ uploads = <<>> /\ availableSheets = <<>> /\ selectedSheet = ""

NextSheets ==
  \/ \E fileNumber \in {1, 2} :
        Len(uploads) < MaxUploads /\ handleFileUpload(fileNumber, workbook[1])
  \/ \E n \in 1..MaxUploads : handleFileUploadAwait(n)
  \/ \E fileNum \in {1, 2} : \E value \in SheetNamePool : selectSheet(fileNum, value)
  \/ \E fileNumber \in {1, 2} : reprocessFileWithSheet(fileNumber)

SpecSheets == InitSheets /\ [][NextSheets]_vars

\* uploads of the workbook at hand, without manual sheet changes
NextDetect ==
  \/ \E fileNumber \in {1, 2} :
        Len(uploads) < MaxUploads /\ handleFileUpload(fileNumber, workbook[1])
  \/ \E n \in 1..MaxUploads : handleFileUploadAwait(n)

SpecDetect == InitSheets /\ [][NextDetect]_vars

\* headers a header row is drawn from
HeaderPool == {"MATRICULA", "CODIGO POLIGONO", "CODIGO CELDA", "NOMBRE"}

\* header rows of up to MaxHeaders distinct headers
HeaderRows ==
  {h \in UNION {[1..k -> HeaderPool] : k \in 1..MaxHeaders} :
     \A i \in 1..Len(h) : \A j \in 1..Len(h) : i # j => h[i] # h[j]}

\* one-sheet workbooks with such a header row and two rows whose cell in
\* column i is the number i
HeaderWorkbooks ==
  {Workbook("archivo.xlsx", FALSE,
            <<Sheet("LPRA110", h, <<[i \in 1..Len(h) |-> ToDigits(i)],
                                   [i \in 1..Len(h) |-> ToDigits(i)]>>)>>) :
     h \in HeaderRows}

InitColumns ==
  /\ page = "datamatch" /\ toast = <<>>
  /\ NormIdle /\ TextInit /\ AppInit
  /\ workbook \in {<<w>> : w \in HeaderWorkbooks}
  /\ uploads = <<>> /\ availableSheets = <<>> /\ selectedSheet = ""

SpecColumns == InitColumns /\ [][NextDetect]_vars

\* a workbook with one data sheet
DataWorkbook ==
  Workbook("datos.xlsx", FALSE,
           <<Sheet("LPRA110", <<"MATRICULA", "POLIGONO", "CELDA">>,
                   << <<Cell5, Cell10, Cell20>>, <<<<"A">>, <<>>, Cell20>> >>)>>)

\* workbooks whose upload fails: one without sheets, one whose only sheet has
\* no cells and one that cannot be read
FailingWorkbooks ==
  {Workbook("sin_hojas.xlsx", FALSE, <<>>),
   Workbook("vacio.xlsx", FALSE, <<Sheet("Hoja1", <<>>, <<>>)>>),
   Workbook("ilegible.xlsx", TRUE, <<>>)}

InitWizard ==
  /\ page = "datamatch" /\ toast = <<>>
  /\ NormIdle /\ TextInit /\ UploadIdle /\ AppInit

\* the wizard: upload, compare, generate, clear
NextWizard ==
  \/ \E fileNumber \in {1, 2} :
        Len(uploads) < MaxUploads /\ handleFileUpload(fileNumber, DataWorkbook)
  \/ \E n \in 1..MaxUploads : handleFileUploadAwait(n)
  \/ compareFiles
  \/ compareFilesTimeout
  \/ generateScripts
  \/ generateQueryScript
  \/ clearAll
  \/ \E fileNumber \in {1, 2} : clearFile(fileNumber)

SpecWizard == InitWizard /\ [][NextWizard]_vars

\* uploads that succeed and uploads that fail, with results at hand
NextReject ==
  \/ \E fileNumber \in {1, 2} : \E file \in {DataWorkbook} \cup FailingWorkbooks :
        Len(uploads) < MaxUploads /\ handleFileUpload(fileNumber, file)
  \/ \E n \in 1..MaxUploads : handleFileUploadAwait(n)
  \/ compareFiles
  \/ compareFilesTimeout
  \/ generateScripts

SpecReject == InitWizard /\ [][NextReject]_vars

\* a workbook whose data differs from DataWorkbook's in a polygon code
OtherWorkbook ==
  Workbook("otros.xlsx", FALSE,
           <<Sheet("LPRA110", <<"MATRICULA", "POLIGONO", "CELDA">>,
                   << <<Cell5, Cell20, Cell20>>, <<<<"A">>, <<>>, Cell20>> >>)>>)

\* files loaded and replaced, compared and scripted
NextReplace ==
  \/ \E fileNumber \in {1, 2} : \E file \in {DataWorkbook, OtherWorkbook} :
        Len(uploads) < MaxUploads /\ handleFileUpload(fileNumber, file)
  \/ \E n \in 1..MaxUploads : handleFileUploadAwait(n)
  \/ compareFiles
  \/ compareFilesTimeout
  \/ generateScripts

SpecReplace == InitWizard /\ [][NextReplace]_vars

\* uploads and removals alone, with up to MaxUploads + 1 uploads waiting
NextUploads ==
  \/ \E fileNumber \in {1, 2} :
        Len(uploads) < MaxUploads + 1 /\ handleFileUpload(fileNumber, DataWorkbook)
  \/ \E n \in 1..(MaxUploads + 1) : handleFileUploadAwait(n)
  \/ \E fileNumber \in {1, 2} : clearFile(fileNumber)

SpecUploads == InitWizard /\ [][NextUploads]_vars

-----------------------------------------------------------------------------
(* Claims about key normalization *)

Spaces(n) == [i \in 1..n |-> " "]

\* t is r without its leading and trailing white space
IsTrimOf(t, r) ==
  /\ t = <<>> \/ (t[1] # " " /\ t[Len(t)] # " ")
  /\ \E a \in 0..Len(r) : \E b \in 0..Len(r) : r = Spaces(a) \o t \o Spaces(b)

\* key is what the normalization rule prescribes for the trimmed value t
FollowsRule(key, t) ==
  IF t # <<>> /\ (\A i \in 1..Len(t) : t[i] \in DigitChars) /\ Len(t) < PadWidth
  THEN /\ Len(key) = PadWidth
       /\ \A i \in 1..(PadWidth - Len(t)) : key[i] = "0"
       /\ \A i \in 1..Len(t) : key[PadWidth - Len(t) + i] = t[i]
  ELSE key = t

IsCanonicalOf(key, r) ==
  \E i \in 1..(Len(r) + 1) : \E j \in 0..Len(r) :
     /\ IsTrimOf(SubSeq(r, i, j), r)
     /\ FollowsRule(key, SubSeq(r, i, j))

\* C1: the key compareFiles indexes a record under (file 1 and file 2), and
\* the value normalizeMatricula returns, is the trimmed raw value left-padded
\* with '0' to 6 characters when it is all digits and shorter than 6, and the
\* trimmed value itself in every other case (never truncated); an empty cell
\* yields no key.
C1_KeyNormalization ==
  pc = "read" =>
    /\ IF raw = <<>> THEN ids.file1 = <<>> /\ ids.file2 = <<>>
       ELSE /\ Len(ids.file1) = 1 /\ IsCanonicalOf(ids.file1[1], raw)
            /\ Len(ids.file2) = 1 /\ IsCanonicalOf(ids.file2[1], raw)
    /\ IsCanonicalOf(ids.normalizeMatricula, raw)

\* a raw value with white space around three digits was read as a padded key
C1_Witness ==
  /\ pc = "read"
  /\ raw = <<" ", "5", "0", "5", " ">>
  /\ ids.file1 = << <<"0", "0", "0", "5", "0", "5">> >>

\* C2: every read site yields the same canonical string for the same raw
\* identifier: the keys of compareFiles for file 1 and file 2, the id list of
\* generateQueryScript, the WHERE id of generateScripts and the ids
\* extractInstalaciones takes from SQL text (raw is a trimmed cell or quoted
\* value).
C2_SameRuleEverywhere ==
  (pc = "read" /\ raw = trim(raw)) =>
    /\ ids.file1 = ids.file2
    /\ ids.query = ids.file1
    /\ ids.where = ids.file1
    /\ ids.extracted = ids.file1

-----------------------------------------------------------------------------
(* Claims about the comparison *)

\* the non-empty normalized identifiers of a dataset
KeySet(data) ==
  {normalizedMatricula(data[i].MATRICULA) : i \in 1..Len(data)} \ {<<>>}

\* the row a dataset holds for key k: the last one carrying it
LastRowOf(data, k) ==
  data[SetMax({i \in 1..Len(data) : normalizedMatricula(data[i].MATRICULA) = k})]

\* the positions of the difference entries of key k
EntriesOf(differences, k) ==
  {i \in 1..Len(differences) : differences[i].matricula = k}

Compared == comparison # <<>> /\ file1 # <<>> /\ file2 # <<>>

\* C3: after a comparison, every non-empty normalized identifier of either
\* dataset is accounted for exactly once, as one difference entry or as one
\* increment of matching and never both; records with an empty identifier
\* produce neither.
C3_ReconciliationComplete ==
  Compared =>
    LET differences == comparison[1].differences
        K == KeySet(file1[1].data) \cup KeySet(file2[1].data)
        matched == {k \in K : EntriesOf(differences, k) = {}}
    IN  /\ \A k \in K : Cardinality(EntriesOf(differences, k)) <= 1
        /\ comparison[1].matching = Cardinality(matched)
        /\ \A i \in 1..Len(differences) : differences[i].matricula \in K
        /\ Len(differences) + comparison[1].matching = Cardinality(K)

\* a comparison of a left dataset holding a record without identifier and a
\* record '5' with an empty right dataset: one entry, for '000005', and no
\* match
C3_Witness ==
  /\ Compared
  /\ Len(file1[1].data) = 2
  /\ file1[1].data[1].MATRICULA = <<>>
  /\ file1[1].data[2].MATRICULA = <<"5">>
  /\ comparison[1].matching = 0
  /\ Len(comparison[1].differences) = 1
  /\ comparison[1].differences[1].matricula = <<"0", "0", "0", "0", "0", "5">>

\* the status the classification rule prescribes for key k ("none": no entry)
ExpectedStatus(k, data1, data2) ==
  IF k \in KeySet(data1) /\ k \in KeySet(data2)
  THEN LET r1 == LastRowOf(data1, k)
           r2 == LastRowOf(data2, k)
           a == r1.CODIGO_POLIGONO # r2.CODIGO_POLIGONO
           b == r1.CODIGO_CELDA # r2.CODIGO_CELDA
       IN  IF a /\ b THEN "actualizar_ambos"
           ELSE IF a THEN "actualizar_poligono"
           ELSE IF b THEN "actualizar_celda"
           ELSE "none"
  ELSE IF k \in KeySet(data1) THEN "nuevo_registro"
  ELSE "sin_cambios"

\* C4: for a key of both datasets the entry's status is update-both,
\* update-poligono or update-celda according to which attributes differ, and
\* there is no entry when neither differs; a key of the left dataset only is
\* new, a key of the right dataset only is unchanged-or-removed; keys are
\* compared after normalization.
C4_Classification ==
  Compared =>
    LET differences == comparison[1].differences
        data1 == file1[1].data
        data2 == file2[1].data
    IN  \A k \in KeySet(data1) \cup KeySet(data2) :
           IF ExpectedStatus(k, data1, data2) = "none"
           THEN EntriesOf(differences, k) = {}
           ELSE /\ EntriesOf(differences, k) # {}
                /\ \A i \in EntriesOf(differences, k) :
                      differences[i].status = ExpectedStatus(k, data1, data2)

\* raw '5' on the left and '000005' on the right, differing in the cell code
\* only, compared as one key
C4_Witness ==
  /\ Compared
  /\ Len(file1[1].data) = 1 /\ file1[1].data[1].MATRICULA = <<"5">>
  /\ Len(file2[1].data) = 1
  /\ file2[1].data[1].MATRICULA = <<"0", "0", "0", "0", "0", "5">>
  /\ Len(comparison[1].differences) = 1
  /\ comparison[1].differences[1].status = "actualizar_celda"
  /\ comparison[1].differences[1].matricula = <<"0", "0", "0", "0", "0", "5">>

\* C5 as stated: in every difference entry and for each attribute,
\* necesitaActualizar holds exactly when the left and the right value differ.
C5_NeedsUpdateIffDiffer ==
  Compared =>
    \A i \in 1..Len(comparison[1].differences) :
      LET d == comparison[1].differences[i]
      IN  /\ d.codigoPoligono.necesitaActualizar
               <=> (d.codigoPoligono.archivo1 # d.codigoPoligono.archivo2)
          /\ d.codigoCelda.necesitaActualizar
               <=> (d.codigoCelda.archivo1 # d.codigoCelda.archivo2)

\* C5, amended: for a key of both datasets necesitaActualizar holds exactly
\* when the left and the right value differ; an entry of a key of the left
\* dataset only has both flags true and empty right values, whatever the left
\* values are; an entry of a key of the right dataset only has both flags
\* false and empty left values.
C5_NeedsUpdateByPresence ==
  Compared =>
    \A i \in 1..Len(comparison[1].differences) :
      LET d == comparison[1].differences[i]
          in1 == d.matricula \in KeySet(file1[1].data)
          in2 == d.matricula \in KeySet(file2[1].data)
      IN  /\ (in1 /\ in2) =>
               /\ d.codigoPoligono.necesitaActualizar
                    <=> (d.codigoPoligono.archivo1 # d.codigoPoligono.archivo2)
               /\ d.codigoCelda.necesitaActualizar
                    <=> (d.codigoCelda.archivo1 # d.codigoCelda.archivo2)
          /\ (in1 /\ ~in2) =>
               /\ d.codigoPoligono.necesitaActualizar
               /\ d.codigoCelda.necesitaActualizar
               /\ d.codigoPoligono.archivo2 = "" /\ d.codigoCelda.archivo2 = ""
               /\ d.codigoPoligono.archivo1 = LastRowOf(file1[1].data, d.matricula).CODIGO_POLIGONO
               /\ d.codigoCelda.archivo1 = LastRowOf(file1[1].data, d.matricula).CODIGO_CELDA
          /\ (in2 /\ ~in1) =>
               /\ ~d.codigoPoligono.necesitaActualizar
               /\ ~d.codigoCelda.necesitaActualizar
               /\ d.codigoPoligono.archivo1 = "" /\ d.codigoCelda.archivo1 = ""

\* a key of the left dataset only whose left polygon code is empty: the flag
\* is true although both values are empty
C5_Witness ==
  /\ Compared
  /\ \E i \in 1..Len(comparison[1].differences) :
        LET d == comparison[1].differences[i]
        IN  /\ d.status = "nuevo_registro"
            /\ d.codigoPoligono.archivo1 = ""
            /\ d.codigoPoligono.archivo2 = ""
            /\ d.codigoPoligono.necesitaActualizar

Scripted == Compared /\ scripts # <<>>

\* the SET list the filter rule prescribes for entry d
ExpectedSet(d) ==
  (IF d.codigoPoligono.necesitaActualizar /\ d.codigoPoligono.archivo1 # ""
   THEN <<"cod_poligono">> ELSE <<>>)
  \o (IF d.codigoCelda.necesitaActualizar /\ d.codigoCelda.archivo1 # ""
      THEN <<"cod_celda">> ELSE <<>>)

Qualifies(d) ==
  /\ d.status \in {"actualizar_poligono", "actualizar_celda",
                    "actualizar_ambos", "nuevo_registro"}
  /\ ExpectedSet(d) # <<>>

\* C6: the update script holds one UPDATE per entry whose status is
\* update-poligono, update-celda, update-both or new and which has an
\* attribute with necesitaActualizar true and a non-empty left value; its SET
\* list names exactly those attributes with their left values; every other
\* entry yields no statement.
C6_UpdateScriptFiltering ==
  Scripted =>
    LET differences == comparison[1].differences
        statements == scripts[1].updateStatements
        of(d) == {j \in 1..Len(statements) : statements[j].where = d.matricula}
    IN  /\ \A i \in 1..Len(differences) :
              LET d == differences[i]
              IN  IF Qualifies(d)
                  THEN /\ Cardinality(of(d)) = 1
                       /\ \A j \in of(d) :
                            /\ [n \in 1..Len(statements[j].set) |->
                                  statements[j].set[n].column] = ExpectedSet(d)
                            /\ \A n \in 1..Len(statements[j].set) :
                                 statements[j].set[n].value =
                                   IF statements[j].set[n].column = "cod_poligono"
                                   THEN d.codigoPoligono.archivo1
                                   ELSE d.codigoCelda.archivo1
                  ELSE of(d) = {}
        /\ Len(statements) =
             Cardinality({i \in 1..Len(differences) : Qualifies(differences[i])})

\* an entry with status update-poligono whose left polygon code is empty:
\* the generated script holds no statement for it
C6_Witness ==
  /\ Scripted
  /\ \E i \in 1..Len(comparison[1].differences) :
        LET d == comparison[1].differences[i]
        IN  /\ d.status = "actualizar_poligono"
            /\ d.codigoPoligono.archivo1 = ""
            /\ \A j \in 1..Len(scripts[1].updateStatements) :
                  scripts[1].updateStatements[j].where # d.matricula

-----------------------------------------------------------------------------
(* Claims about the generated query and validation scripts *)

CountKind(script, kind) ==
  Cardinality({i \in 1..Len(script) : script[i].kind = kind})

\* the line numbers of the lines of one kind, in order
Positions(script, kind) ==
  SelectSeq([i \in 1..Len(script) |-> i], LAMBDA i : script[i].kind = kind)

\* the identifiers (with their circuit) on the lines of one kind, in order
IdsOn(script, kind) ==
  LET lines == SelectSeq(script, LAMBDA l : l.kind = kind)
  IN  [i \in 1..Len(lines) |->
         [instalacao |-> lines[i].instalacao, circuito |-> lines[i].circuito]]

\* the number of literals of the k-th IN (...) clause of a script
InListSize(script, k) ==
  Positions(script, "IN_CLOSE")[k] - Positions(script, "IN_OPEN")[k] - 1

\* the number of identifiers the stored validation script was generated from
ScriptTotal == validationScript[1][1].n

ChunkingScript == page = "filecompress_chunking" /\ validationScript # <<>>

C9_InListCap ==
  /\ validationScript # <<>> =>
       \A k \in 1..Len(Positions(validationScript[1], "IN_OPEN")) :
          InListSize(validationScript[1], k) <= 1000
  /\ queryScript # <<>> => Len(queryScript[1].inList) <= 1000

\* C10: generating from zero identifiers is reported and stores no script: no
\* stored script was generated from zero identifiers, and when the loaded
\* files (file 1 of the comparison page, the accepted .sql files of the text
\* tool) hold no identifier, the handler that ran last told the operator so
\* with an error notice.
C10_EmptyKeySet ==
  /\ validationScript # <<>> => ScriptTotal > 0
  /\ queryScript # <<>> => queryScript[1].total > 0
  /\ (page \in TextPages /\ files # <<>> /\ SumLen(files) = 0) =>
       \E i \in 1..Len(toast) : toast[i].variant = "destructive"
  /\ (page = "datamatch" /\ toast # <<>> /\ file1 # <<>>
        /\ matriculasOf(file1[1].data) = <<>>) =>
       \E i \in 1..Len(toast) : toast[i].variant = "destructive"

-----------------------------------------------------------------------------
(* Claims about the text tool's batch, idempotence and counts *)

\* the files of a batch whose name ends in '.sql' in any letter case
SqlFilesOf(fileList) ==
  SelectSeq(fileList, LAMBDA f : f.name \in {"LPRA110.sql", "PALA103.SQL"})

C18_NormalizationIdempotent ==
  pc = "read" =>
    /\ \A i \in 1..Len(ids.file1) :
          normalizedMatricula(ids.file1[i]) = ids.file1[i]
    /\ normalizeMatricula(ids.normalizeMatricula) = ids.normalizeMatricula
    /\ (raw # <<>> /\ Len(raw) < 6 /\ \A i \in 1..Len(raw) : raw[i] \in DigitChars) =>
          /\ Len(ids.file1[1]) = 6
          /\ Len(ids.normalizeMatricula) = 6

\* '50' was read as '000050', which normalizes to itself
C18_Witness ==
  /\ pc = "read"
  /\ raw = <<"5", "0">>
  /\ ids.file1 = << <<"0", "0", "0", "0", "5", "0">> >>
  /\ normalizedMatricula(ids.file1[1]) = ids.file1[1]

\* C19: comparing a dataset with itself gives no difference entry,
\* nonMatching = 0 and matching = the number of distinct non-empty normalized
\* identifiers of the dataset, duplicates included.
C19_SelfComparison ==
  (Compared /\ file1[1].data = file2[1].data) =>
    /\ comparison[1].differences = <<>>
    /\ comparison[1].nonMatching = 0
    /\ comparison[1].matching = Cardinality(KeySet(file1[1].data))

\* a dataset holding '5' and '000005', two rows of one key, compared with
\* itself
C19_Witness ==
  /\ Compared
  /\ file1[1].data = file2[1].data
  /\ Len(file1[1].data) = 2
  /\ file1[1].data[1].MATRICULA = <<"5">>
  /\ file1[1].data[2].MATRICULA = <<"0", "0", "0", "0", "0", "5">>
  /\ file1[1].data[1].CODIGO_POLIGONO # file1[1].data[2].CODIGO_POLIGONO
  /\ comparison[1].matching = 1

\* C20: matching is the number of keys of both datasets whose two attributes
\* are equal; nonMatching is the number of distinct keys of both datasets
\* minus matching, and equals the number of difference entries.
C20_Counts ==
  Compared =>
    LET data1 == file1[1].data
        data2 == file2[1].data
        equalKeys == {k \in KeySet(data1) \cap KeySet(data2) :
                        /\ LastRowOf(data1, k).CODIGO_POLIGONO
                             = LastRowOf(data2, k).CODIGO_POLIGONO
                        /\ LastRowOf(data1, k).CODIGO_CELDA
                             = LastRowOf(data2, k).CODIGO_CELDA}
    IN  /\ comparison[1].matching = Cardinality(equalKeys)
        /\ comparison[1].nonMatching =
             Cardinality(KeySet(data1) \cup KeySet(data2)) - Cardinality(equalKeys)
        /\ comparison[1].nonMatching = Len(comparison[1].differences)

\* one key on the left only and another on the right only: two entries, no
\* match
C20_Witness ==
  /\ Compared
  /\ KeySet(file1[1].data) = {<<"A">>}
  /\ KeySet(file2[1].data) = {<<"0", "0", "0", "0", "0", "5">>}
  /\ comparison[1].matching = 0
  /\ comparison[1].nonMatching = 2

-----------------------------------------------------------------------------
(* Claims about sheet selection and column mapping *)

\* the number of the three fields for which a header holds a keyword
KeyFieldsIn(headers) ==
  Cardinality({f \in {"matricula", "poligono", "celda"} :
     \E i \in 1..Len(headers) :
        headers[i] \in (CASE f = "matricula" -> DetectMatriculaHeaders
                          [] f = "poligono" -> PoligonoHeaders
                          [] f = "celda" -> CeldaHeaders)})

Populated(row) == \E i \in 1..Len(row) : row[i] # <<>> /\ trim(row[i]) # <<>>

\* the content test as the claim words it
ContentTest(sheet) ==
  /\ KeyFieldsIn(sheet.headers) >= 2
  /\ \E i \in 1..Len(sheet.rows) : i <= 4 /\ Populated(sheet.rows[i])

\* the content test with the two thresholds of the code
ContentTestWithMinimum(sheet) ==
  /\ ContentTest(sheet)
  /\ Len(sheet.headers) >= 3
  /\ Len(sheet.rows) >= 2

\* the name of the sheet the ordered priority selects, for a content test
\* given by the set of positions that pass it
SelectedByPriority(sheets, passing) ==
  LET named == {i \in 1..Len(sheets) : sheets[i].name \notin {"Hoja1", "Sheet2", "123"}}
  IN  IF passing # {} THEN sheets[SetMin(passing)].name
      ELSE IF named # {} THEN sheets[SetMin(named)].name
      ELSE IF Len(sheets) > 1 THEN sheets[2].name
      ELSE sheets[1].name

Detected == workbook # <<>> /\ availableSheets # <<>>

IsOneOf(name, names) == \E j \in 1..Len(names) : names[j] = name

\* C14: the processed sheet of every loaded file is one of its available
\* sheets, also after manual changes; a selection was made whenever the
\* workbook could be read and has a sheet.
C14_ProcessedSheetAvailable ==
  /\ file1 # <<>> => IsOneOf(file1[1].hojaProcesada, file1[1].hojasDisponibles)
  /\ file2 # <<>> => IsOneOf(file2[1].hojaProcesada, file2[1].hojasDisponibles)
  /\ availableSheets # <<>> => IsOneOf(selectedSheet, availableSheets)
  /\ (workbook # <<>> /\ toast # <<>>
        /\ toast[1].title = "Error al procesar archivo") =>
       (workbook[1].corrupt \/ workbook[1].sheets = <<>>)

\* a loaded file whose sheet was changed by hand to another available one
C14_Witness ==
  /\ file1 # <<>>
  /\ Len(file1[1].hojasDisponibles) = 2
  /\ selectedSheet = file1[1].hojasDisponibles[1]
  /\ file1[1].hojaProcesada = file1[1].hojasDisponibles[2]

\* the sheet of the workbook at hand with a given name
SheetNamed(name) ==
  workbook[1].sheets[CHOOSE i \in 1..Len(workbook[1].sheets) :
                        workbook[1].sheets[i].name = name]

\* C15: when the operator applies the sheet chosen for a loaded file, the
\* file's records, record count and columns are those built from that sheet.
C15_OverrideRebuilds ==
  [][/\ (reprocessFileWithSheet(1) /\ file1 # <<>>) =>
          /\ file1'[1].data = processedDataOf(SheetNamed(file1'[1].hojaProcesada))
          /\ file1'[1].records = Len(file1'[1].data)
          /\ file1'[1].columns = SheetNamed(file1'[1].hojaProcesada).headers
     /\ (reprocessFileWithSheet(2) /\ file2 # <<>>) =>
          /\ file2'[1].data = processedDataOf(SheetNamed(file2'[1].hojaProcesada))
          /\ file2'[1].records = Len(file2'[1].data)
          /\ file2'[1].columns = SheetNamed(file2'[1].hojaProcesada).headers]_vars

\* the loaded files
Loaded == {f \in {file1, file2} : f # <<>>}

Unmapped(f, field) ==
  ~\E i \in 1..Len(f[1].columns) :
      f[1].columns[i] \in (CASE field = "matricula" -> MapMatriculaHeaders
                             [] field = "poligono" -> PoligonoHeaders
                             [] field = "celda" -> CeldaHeaders)

IssueOf(field) ==
  CASE field = "matricula" -> "No se detecto columna de matricula"
    [] field = "poligono" -> "No se detecto columna de codigo de poligono"
    [] field = "celda" -> "No se detecto columna de codigo de celda"

\* the file is built, and every record is empty in the fields no header maps
BuiltWithEmptyFields ==
  /\ (workbook # <<>> /\ toast # <<>>
        /\ toast[Len(toast)].title = "Error al procesar archivo") =>
       \/ workbook[1].corrupt
       \/ workbook[1].sheets = <<>>
       \/ \E i \in 1..Len(workbook[1].sheets) :
             workbook[1].sheets[i].name = selectedSheet
             /\ workbook[1].sheets[i].headers = <<>>
  /\ \A f \in Loaded :
        /\ Unmapped(f, "matricula") =>
             /\ \A i \in 1..Len(f[1].data) : f[1].data[i].MATRICULA = <<>>
             /\ KeySet(f[1].data) = {}
        /\ Unmapped(f, "poligono") =>
             \A i \in 1..Len(f[1].data) : f[1].data[i].CODIGO_POLIGONO = ""
        /\ Unmapped(f, "celda") =>
             \A i \in 1..Len(f[1].data) : f[1].data[i].CODIGO_CELDA = ""

\* C16 as stated: mapping never fails the file; a field no header matches is
\* empty in every record, and the missing column is among the validation
\* issues of the file.
C16_MappingNeverFails ==
  /\ BuiltWithEmptyFields
  /\ \A f \in Loaded : \A field \in {"matricula", "poligono", "celda"} :
        Unmapped(f, field) =>
          IsOneOf(IssueOf(field), validateFileData(f[1].data))

\* C16, amended: mapping never fails the file; a field no header matches is
\* empty in every record (for the identifier: no key); the missing column is
\* among the validation issues when the file has at least one record, and a
\* file without records has the single issue that it holds no data.
C16_MappingNeverFailsWithRecords ==
  /\ BuiltWithEmptyFields
  /\ \A f \in Loaded :
        IF f[1].records = 0
        THEN validateFileData(f[1].data) = <<"El archivo no contiene datos">>
        ELSE \A field \in {"matricula", "poligono", "celda"} :
                Unmapped(f, field) =>
                  IsOneOf(IssueOf(field), validateFileData(f[1].data))

\* a file built from a sheet without identifier column: two records, no key,
\* the missing column reported
C16_Witness ==
  /\ file1 # <<>>
  /\ file1[1].columns = <<"NOMBRE", "POLIGONO", "CELDA">>
  /\ file1[1].records = 2
  /\ KeySet(file1[1].data) = {}
  /\ IsOneOf("No se detecto columna de matricula", validateFileData(file1[1].data))

\* the results the wizard holds
Results == <<file1, file2, comparison, scripts, queryScript, currentStep, completedSteps>>

\* the last notification is the rejection of an upload
Rejected ==
  /\ toast # <<>>
  /\ toast[Len(toast)] = Toast("Error al procesar archivo", "destructive")

\* C12: an upload that fails (no sheets, a sheet without cells, an unreadable
\* file) changes neither slot, nor the comparison, nor the scripts, nor the
\* wizard step: neither its start nor its failing settlement touches them.
C12_FailedUploadNoEffect ==
  [][((\E n \in 1..Len(uploads) :
          handleFileUploadAwait(n) /\ ~processExcelFile(uploads[n].file).ok)
      \/ (\E fileNumber \in {1, 2} : \E file \in FailingWorkbooks :
             handleFileUpload(fileNumber, file)))
     => UNCHANGED Results]_vars

\* an upload was rejected while both files, a comparison and scripts were at hand
C12_Witness ==
  /\ Rejected
  /\ file1 # <<>> /\ file2 # <<>>
  /\ comparison # <<>> /\ scripts # <<>>
  /\ currentStep = 3

\* nothing is loaded, nothing is derived and the wizard is at its first step
Cleared ==
  /\ file1 = <<>> /\ file2 = <<>>
  /\ comparison = <<>>
  /\ scripts = <<>> /\ queryScript = <<>>
  /\ currentStep = 1 /\ completedSteps = <<>>

\* C17: after clearAll everything is discarded and stays so until the next
\* upload, also when a comparison was waiting on its delay: with no upload
\* started or settled, a step from a cleared page leads to a cleared page.
C17_ClearStaysCleared ==
  [][(Cleared /\ uploads = <<>> /\ uploads' = <<>>) => Cleared']_vars

\* the differences of a comparison hold the values of the last row of each
\* side for key k, and '' for a side without the key
LastRowValues(d, data1, data2) ==
  LET k == d.matricula
  IN  /\ d.codigoPoligono.archivo1 =
           (IF k \in KeySet(data1) THEN LastRowOf(data1, k).CODIGO_POLIGONO ELSE "")
      /\ d.codigoCelda.archivo1 =
           (IF k \in KeySet(data1) THEN LastRowOf(data1, k).CODIGO_CELDA ELSE "")
      /\ d.codigoPoligono.archivo2 =
           (IF k \in KeySet(data2) THEN LastRowOf(data2, k).CODIGO_POLIGONO ELSE "")
      /\ d.codigoCelda.archivo2 =
           (IF k \in KeySet(data2) THEN LastRowOf(data2, k).CODIGO_CELDA ELSE "")

\* the rows of a dataset that carry key k
RowsOfKey(data, k) ==
  {i \in 1..Len(data) : normalizedMatricula(data[i].MATRICULA) = k}

\* C21: when several records of a dataset normalize to the same key, the last
\* of them in row order is the one compared and shown; the key has exactly one
\* difference entry or one increment of matching, and the only notification is
\* the one that announces the comparison.
C21_LastWriteWins ==
  Compared =>
    LET differences == comparison[1].differences
        data1 == file1[1].data
        data2 == file2[1].data
        K == KeySet(data1) \cup KeySet(data2)
        equalKeys == {k \in KeySet(data1) \cap KeySet(data2) :
                        /\ LastRowOf(data1, k).CODIGO_POLIGONO
                             = LastRowOf(data2, k).CODIGO_POLIGONO
                        /\ LastRowOf(data1, k).CODIGO_CELDA
                             = LastRowOf(data2, k).CODIGO_CELDA}
    IN  /\ \A i \in 1..Len(differences) :
              /\ differences[i].matricula \in K
              /\ LastRowValues(differences[i], data1, data2)
        /\ \A k \in K :
              Cardinality(EntriesOf(differences, k)) = (IF k \in equalKeys THEN 0 ELSE 1)
        /\ comparison[1].matching = Cardinality(equalKeys)
        /\ (timers = <<>> /\ toast # <<>>) =>
              toast = <<Toast("Comparacion completada", "default")>>

\* the left file holds a key three times with the polygon codes '', '10', ''
\* and the right file holds it with '10': the entry shows the last row's ''
C21_Witness ==
  /\ Compared
  /\ Len(file1[1].data) = 3
  /\ Cardinality(RowsOfKey(file1[1].data, <<"0", "0", "0", "0", "0", "5">>)) = 3
  /\ file1[1].data[2].CODIGO_POLIGONO = "10"
  /\ file1[1].data[3].CODIGO_POLIGONO = ""
  /\ Len(file2[1].data) = 1
  /\ file2[1].data[1].CODIGO_POLIGONO = "10"
  /\ Len(comparison[1].differences) = 1
  /\ comparison[1].differences[1].codigoPoligono.archivo1 = ""

\* the first row of a dataset that carries key k
FirstRowOf(data, k) == SetMin(RowsOfKey(data, k))

\* C22: the differences list the entries of the left dataset's keys in the
\* order of each key's first row, then the entries of the keys only the right
\* dataset has in the order of their first row there.
C22_DifferencesOrder ==
  Compared =>
    LET differences == comparison[1].differences
        data1 == file1[1].data
        data2 == file2[1].data
    IN  \A i \in 1..Len(differences) : \A j \in 1..Len(differences) :
           i < j =>
             LET ki == differences[i].matricula
                 kj == differences[j].matricula
             IN  IF kj \in KeySet(data1)
                 THEN /\ ki \in KeySet(data1)
                      /\ FirstRowOf(data1, ki) < FirstRowOf(data1, kj)
                 ELSE ki \notin KeySet(data1) =>
                        FirstRowOf(data2, ki) < FirstRowOf(data2, kj)

\* the left rows carry keys 000005, A, 000005: the entry of 000005 comes
\* first, then A's, then the entry of a key only the right file has
C22_Witness ==
  /\ Compared
  /\ Len(file1[1].data) = 3
  /\ RowsOfKey(file1[1].data, <<"0", "0", "0", "0", "0", "5">>) = {1, 3}
  /\ RowsOfKey(file1[1].data, <<"A">>) = {2}
  /\ Len(file2[1].data) = 1
  /\ normalizedMatricula(file2[1].data[1].MATRICULA) = <<"B">>
  /\ Len(comparison[1].differences) = 3
  /\ comparison[1].differences[1].matricula = <<"0", "0", "0", "0", "0", "5">>
  /\ comparison[1].differences[2].matricula = <<"A">>
  /\ comparison[1].differences[3].status = "sin_cambios"

\* C23: a comparison or an update script is held only while both files are
\* loaded: a clearFile step leaves neither.
C23_ClearFileDropsResults ==
  [][(\E fileNumber \in {1, 2} : clearFile(fileNumber))
       => (comparison' = <<>> /\ scripts' = <<>>)]_vars

\* the steps of a list of completed steps
StepSet(steps) == {steps[i] : i \in 1..Len(steps)}

\* C28: whenever both files are loaded the wizard is at step 2 or later and
\* step 2 is completed, however the two uploads interleave.
C28_BothLoadedReachesStep2 ==
  (file1 # <<>> /\ file2 # <<>>) =>
     (currentStep >= 2 /\ 2 \in StepSet(completedSteps))

\* C29: except on clearAll, every completed step stays completed, and the
\* completed steps are always distinct steps among 1, 2, 3.
C29_CompletedStepsGrow ==
  [][\/ clearAll
     \/ /\ StepSet(completedSteps) \subseteq StepSet(completedSteps')
        /\ StepSet(completedSteps') \subseteq {1, 2, 3}
        /\ Cardinality(StepSet(completedSteps')) = Len(completedSteps')]_vars

\* C24: in the text-file tool the combined file, the validation script and the
\* summary message are empty when the file list is empty and otherwise are
\* the ones generated from the current list.
C24_OutputsFollowFiles ==
  page \in TextPages =>
    IF files = <<>>
    THEN /\ compressedContent = <<>>
         /\ validationScript = <<>>
         /\ emailMessage = <<>>
    ELSE /\ compressedContent = <<generateCompressedFile(files)>>
         /\ validationScript = <<generateValidationScript(files)>>
         /\ page = "filecompress" => emailMessage = <<generateEmailMessage(files)>>

\* C25: a non-empty update script is the one generated from the comparison
\* currently held.
C25_ScriptOfCurrentComparison ==
  scripts # <<>> =>
    /\ comparison # <<>>
    /\ scripts[1].total = comparison[1].total
    /\ scripts[1].diferencias = Len(comparison[1].differences)
    /\ scripts[1].totalActualizaciones
         = totalActualizacionesOf(comparison[1].differences)
    /\ scripts[1].updateStatements = updateStatementsOf(comparison[1].differences)

\* C26: the number of updates the script announces is the number of UPDATE
\* statements it contains.
C26_AnnouncedCount ==
  scripts # <<>> =>
    scripts[1].totalActualizaciones = Len(scripts[1].updateStatements)

\* the headers mapColumns chose for the logical fields, where it chose one
ChosenDistinct(headers) ==
  LET columnMapping == mapColumns(headers)
  IN  \A f \in {"matricula", "poligono", "celda"} :
        \A g \in {"matricula", "poligono", "celda"} :
           (f # g /\ columnMapping[f] # <<>> /\ columnMapping[g] # <<>>)
              => columnMapping[f] # columnMapping[g]

\* C27: for the header row of every loaded file, mapColumns chooses no header
\* for more than one of the identifier, the polygon code and the cell code.
C27_DistinctColumns ==
  /\ file1 # <<>> => ChosenDistinct(file1[1].columns)
  /\ file2 # <<>> => ChosenDistinct(file2[1].columns)

\* C30: whatever the workbook, the sheet is never selected by the rule that
\* asks for a non-generic name together with the content test.
C30_SecondRuleNeverSelects ==
  Detected =>
    circuitSheetOf(workbook[1].sheets).detectionMethod
      \in {"contenido_valido", "nombre_especifico_sin_validacion",
           "segunda_hoja", "primera_hoja"}

\* the second sheet has a non-generic name and passes the content test, and
\* was selected, while the first has neither
C30_Witness ==
  /\ Detected
  /\ Len(workbook[1].sheets) = 2
  /\ workbook[1].sheets[1].name = "Hoja1"
  /\ ~detectValidSheet(workbook[1].sheets[1])
  /\ workbook[1].sheets[2].name = "LPRA110"
  /\ detectValidSheet(workbook[1].sheets[2])
  /\ selectedSheet = "LPRA110"
  /\ file1 # <<>> /\ file1[1].hojaProcesada = "LPRA110"

====
